---- MODULE Spec2Model ----
(***************************************************************************)
(* Model of the content processing pipeline of the AI competitor tracker   *)
(* (src/src/processors/content_processor.py) and of its caller in          *)
(* src/main.py.  Texts are strings; the Python string, regular expression  *)
(* and datetime operations the code relies on are defined as operators     *)
(* that compute what the library calls compute.                            *)
(***************************************************************************)
EXTENDS Integers, Sequences, FiniteSets, TLC

VARIABLES
    seen_hashes,   \* ContentProcessor.seen_hashes
    accepted,      \* history: every record appended to a processed_articles list
    batch,         \* the caller's list, as far as the running call has read it
    processed,     \* processed_articles of the running process_articles call
    result,        \* the list returned by the most recent call
    lastOp,        \* the most recent call that returned, with its arguments
    runs,          \* process_articles calls that have returned
    pc,            \* "idle", or the method the instance is executing
    now,           \* datetime.now() of the host
    tzname,        \* time.tzname of the host
    fn,            \* arguments and return value of a single function call
    futures,       \* execute_intelligence_gathering: the scrape_source tasks
    all_articles,  \* execute_intelligence_gathering: the merged batch
    trending_topics, \* execute_intelligence_gathering: the topics computed
    threads,       \* callers sharing the instance: what each holds locally
    scraper        \* the WebScraper instance: rate_limit and last_request_time

vars == <<seen_hashes, accepted, batch, processed, result, lastOp, runs, pc,
          now, tzname, fn, futures, all_articles, trending_topics, threads,
          scraper>>

(***************************************************************************)
(* Texts of the records the model is run on                                *)
(***************************************************************************)
Titles ==
    { "OpenAI releases GPT-5 model today", "OpenAI releases GPT-5 model",
      "OpenAI releases GPT-5 update", "GPT-5 model today",
      "Google releases Gemini 2", "Weather forecast for Tuesday",
      "Cloud platform news", "Software notes", "NLP algorithm update",
      "Keras notes", "An Acquisition", "Machine", "" }

Contents ==
    { "", "OpenAI announces major funding round.", "sunny skies expected",
      "learning about technology software startup", "New NLP algorithm study",
      "the paper", "Investment in cloud saas api platform" }

DateStrings ==
    { "", "not a date", "2024-01-09", "2024-01-03", "2024-01-03T12:00:00",
      "2024-01-02T08:00:00", "2024-01-01Tjunk", "2024-01-10 09:30:00.123456",
      "Tue, 09 Jan 2024 10:00:00 GMT", "Mon, 01 Jan 2024 10:00:00 GMT",
      "Mon, 01 Jan 2024 10:00:00 MSK" }

\* time.tzname of the hosts the model is run on
HostZones == { << "UTC", "UTC" >>, << "MSK", "MSK" >> }

(***************************************************************************)
(* ContentProcessor.__init__: the keyword tiers                            *)
(***************************************************************************)
high_priority ==
    << "artificial intelligence", "machine learning", "deep learning",
       "neural network", "large language model", "llm", "gpt",
       "transformer", "generative ai", "chatbot", "openai",
       "anthropic", "google ai", "microsoft ai", "meta ai",
       "deepmind", "hugging face", "stability ai" >>

medium_priority ==
    << "automation", "computer vision", "natural language",
       "nlp", "ai model", "algorithm", "data science",
       "tensorflow", "pytorch", "keras", "scikit-learn",
       "ai startup", "ai funding", "ai ethics", "ai regulation" >>

tech_context ==
    << "tech", "technology", "software", "startup",
       "funding", "vc", "venture capital", "investment",
       "api", "platform", "cloud", "saas" >>

\* the indicator phrases of _determine_priority
critical_terms ==
    << "breakthrough", "major announcement", "new model",
       "gpt-5", "gpt-4", "claude", "gemini", "llama",
       "acquisition", "merger", "funding round", "ipo",
       "partnership", "collaboration", "investment" >>

high_priority_terms ==
    << "launch", "release", "unveil", "introduce",
       "upgrade", "improvement", "feature", "update",
       "research", "study", "paper", "findings" >>


\* every phrase the processor looks for
RECURSIVE Range(_)
Range(seq) == IF seq = << >> THEN {} ELSE {Head(seq)} \cup Range(Tail(seq))

Phrases ==
    Range(high_priority) \cup Range(medium_priority) \cup Range(tech_context)
    \cup Range(critical_terms) \cup Range(high_priority_terms)

(***************************************************************************)
(* Python str operations.  TLC evaluates a constant definition once, so    *)
(* the scans of the texts above are tabulated (LowerTable, PhraseTable,    *)
(* ...); an operator looks its argument up and scans any other text.       *)
(***************************************************************************)
Min(a, b) == IF a < b THEN a ELSE b
Max(a, b) == IF a > b THEN a ELSE b

CharAt(s, i) == SubSeq(s, i, i)

UpperCase == "ABCDEFGHIJKLMNOPQRSTUVWXYZ"
LowerCase == "abcdefghijklmnopqrstuvwxyz"
Digits    == "0123456789"

\* 0 when c is not a character of alphabet, else its position
IndexIn(c, alphabet) ==
    IF \E i \in 1..Len(alphabet) : CharAt(alphabet, i) = c
    THEN CHOOSE i \in 1..Len(alphabet) : CharAt(alphabet, i) = c
    ELSE 0

LowerChar(c) ==
    LET i == IndexIn(c, UpperCase) IN IF i = 0 THEN c ELSE CharAt(LowerCase, i)

RECURSIVE LowerFrom(_, _)
LowerFrom(s, i) ==
    IF i > Len(s) THEN "" ELSE LowerChar(CharAt(s, i)) \o LowerFrom(s, i + 1)

LowerTable == [s \in Titles \cup Contents |-> LowerFrom(s, 1)]

\* str.lower()
lower(s) == IF s \in DOMAIN LowerTable THEN LowerTable[s] ELSE LowerFrom(s, 1)

\* sub in s, by scanning s
Occurs(sub, s) ==
    \E i \in 1..(Len(s) - Len(sub) + 1) : SubSeq(s, i, i + Len(sub) - 1) = sub

\* the lower-cased titles, and the lower-cased titles and contents joined
LowerTexts ==
    {LowerTable[t] : t \in Titles}
    \cup {LowerTable[t] \o " " \o LowerTable[c] : t \in Titles, c \in Contents}

PhraseTable == [s \in LowerTexts |-> {p \in Phrases : Occurs(p, s)}]

\* sub in s
Contains(sub, s) ==
    IF s \in DOMAIN PhraseTable /\ sub \in Phrases THEN sub \in PhraseTable[s]
    ELSE Occurs(sub, s)

\* s.split('T')[0]
RECURSIVE PrefixBefore(_, _, _)
PrefixBefore(s, c, i) ==
    IF i > Len(s) \/ CharAt(s, i) = c THEN SubSeq(s, 1, i - 1)
    ELSE PrefixBefore(s, c, i + 1)

SplitFirst(s, c) == PrefixBefore(s, c, 1)

(***************************************************************************)
(* Python dict operations: an article is a function from keys to values    *)
(***************************************************************************)
\* article.get(key, default)
Get(article, key, default) ==
    IF key \in DOMAIN article THEN article[key] ELSE default

\* article[key] = value
Put(article, key, value) ==
    [k \in (DOMAIN article) \cup {key} |-> IF k = key THEN value ELSE article[k]]

\* f"{title} {content}" of the lower-cased title and content
combined_text(article) ==
    lower(Get(article, "title", "")) \o " " \o lower(Get(article, "content", ""))

(***************************************************************************)
(* ContentProcessor._calculate_relevance_score                             *)
(***************************************************************************)
\* the loop over a weighted tier: weight per keyword found in the combined
\* text, bonus more when it is also found in the title
RECURSIVE TierLoop(_, _, _, _, _, _, _)
TierLoop(keywords, i, combined, title, weight, bonus, score) ==
    IF i > Len(keywords) THEN score
    ELSE LET keyword == keywords[i]
             s1 == IF Contains(keyword, combined) THEN score + weight ELSE score
             s2 == IF Contains(keyword, combined) /\ Contains(keyword, title)
                   THEN s1 + bonus ELSE s1
         IN  TierLoop(keywords, i + 1, combined, title, weight, bonus, s2)

\* mutant of TechLoop: the cap of 3 is lost
RECURSIVE TechLoopUncapped(_, _, _, _)
TechLoopUncapped(keywords, i, combined, tech_score) ==
    IF i > Len(keywords) THEN tech_score
    ELSE TechLoopUncapped(keywords, i + 1, combined,
            IF Contains(keywords[i], combined)
            THEN tech_score + 1 ELSE tech_score)

\* the loop over tech_context: one point per keyword found while tech_score < 3
RECURSIVE TechLoop(_, _, _, _)
TechLoop(keywords, i, combined, tech_score) ==
    IF i > Len(keywords) THEN tech_score
    ELSE TechLoop(keywords, i + 1, combined,
            IF Contains(keywords[i], combined) /\ tech_score < 3
            THEN tech_score + 1 ELSE tech_score)

_calculate_relevance_score(article) ==
    LET title    == lower(Get(article, "title", ""))
        combined == combined_text(article)
        high     == TierLoop(high_priority, 1, combined, title, 3, 2, 0)
        medium   == TierLoop(medium_priority, 1, combined, title, 2, 1, high)
    IN  medium + TechLoop(tech_context, 1, combined, 0)

(***************************************************************************)
(* ContentProcessor._determine_priority                                    *)
(***************************************************************************)
\* any(term in text for term in terms)
AnyTermIn(terms, text) == \E i \in 1..Len(terms) : Contains(terms[i], text)

\* mutant of _determine_priority: the score tiers are tried before the phrases
DeterminePriorityScoreFirst(article, relevance_score) ==
    LET combined == combined_text(article) IN
    IF relevance_score >= 10 THEN "critical"
    ELSE IF relevance_score >= 6 THEN "high"
    ELSE IF AnyTermIn(critical_terms, combined) THEN "critical"
    ELSE IF AnyTermIn(high_priority_terms, combined) THEN "high"
    ELSE IF relevance_score >= 4 THEN "medium"
    ELSE "low"

_determine_priority(article, relevance_score) ==
    LET combined == combined_text(article) IN
    IF relevance_score >= 10 THEN "critical"
    ELSE IF AnyTermIn(critical_terms, combined) THEN "critical"
    ELSE IF relevance_score >= 6 \/ AnyTermIn(high_priority_terms, combined) THEN "high"
    ELSE IF relevance_score >= 4 THEN "medium"
    ELSE "low"

(***************************************************************************)
(* Python datetime: a datetime is [year, month, day, hour, minute, second] *)
(***************************************************************************)
IsLeap(y) == (y % 4 = 0 /\ y % 100 # 0) \/ y % 400 = 0

DaysInMonth(y, m) ==
    IF m = 2 THEN (IF IsLeap(y) THEN 29 ELSE 28)
    ELSE IF m \in {4, 6, 9, 11} THEN 30 ELSE 31

RECURSIVE DaysBeforeMonth(_, _)
DaysBeforeMonth(y, m) ==
    IF m <= 1 THEN 0 ELSE DaysBeforeMonth(y, m - 1) + DaysInMonth(y, m - 1)

\* date.toordinal()
ToOrdinal(dt) ==
    LET y == dt.year - 1
    IN  y * 365 + (y \div 4) - (y \div 100) + (y \div 400)
        + DaysBeforeMonth(dt.year, dt.month) + dt.day

SecondOfDay(dt) == dt.hour * 3600 + dt.minute * 60 + dt.second

DateTime(y, m, d, hh, mm, ss) ==
    [year |-> y, month |-> m, day |-> d, hour |-> hh, minute |-> mm, second |-> ss]

\* a point in time as (day ordinal, second of the day); timedelta(days=n) moves ord
Instant(dt) == [ord |-> ToOrdinal(dt), secs |-> SecondOfDay(dt)]

MinusDays(t, days) == [t EXCEPT !.ord = t.ord - days]

\* a >= b on datetimes
InstantGe(a, b) == a.ord > b.ord \/ (a.ord = b.ord /\ a.secs >= b.secs)

DigitStr(n) == CharAt(Digits, n + 1)
Pad2(n) == DigitStr(n \div 10) \o DigitStr(n % 10)
Pad4(n) == Pad2(n \div 100) \o Pad2(n % 100)

\* datetime.isoformat(), at the clock's resolution of one second
isoformat(dt) ==
    Pad4(dt.year) \o "-" \o Pad2(dt.month) \o "-" \o Pad2(dt.day) \o "T"
    \o Pad2(dt.hour) \o ":" \o Pad2(dt.minute) \o ":" \o Pad2(dt.second)

(***************************************************************************)
(* datetime.strptime for the formats filter_by_date passes to it.  A parse *)
(* that raises ValueError is NoMatch.                                      *)
(***************************************************************************)
NoMatch == [nomatch |-> TRUE]

IsDigits(s) == Len(s) > 0 /\ \A i \in 1..Len(s) : IndexIn(CharAt(s, i), Digits) > 0

RECURSIVE ParseIntFrom(_, _, _)
ParseIntFrom(s, i, acc) ==
    IF i > Len(s) THEN acc
    ELSE ParseIntFrom(s, i + 1, acc * 10 + IndexIn(CharAt(s, i), Digits) - 1)

ParseInt(s) == ParseIntFrom(s, 1, 0)

\* s.split(sep) for a one-character separator
RECURSIVE SplitFrom(_, _, _, _)
SplitFrom(s, sep, start, i) ==
    IF i > Len(s) THEN << SubSeq(s, start, Len(s)) >>
    ELSE IF CharAt(s, i) = sep
         THEN << SubSeq(s, start, i - 1) >> \o SplitFrom(s, sep, i + 1, i + 1)
         ELSE SplitFrom(s, sep, start, i + 1)

Split(s, sep) == SplitFrom(s, sep, 1, 1)

\* a field of one or two digits with a value in lo..hi; -1 when it does not match
NumField(tok, lo, hi) ==
    IF IsDigits(tok) /\ Len(tok) <= 2 /\ ParseInt(tok) >= lo /\ ParseInt(tok) <= hi
    THEN ParseInt(tok) ELSE -1

\* %d also accepts a space-padded day
DayField(tok) ==
    IF Len(tok) = 2 /\ CharAt(tok, 1) = " " THEN NumField(CharAt(tok, 2), 1, 9)
    ELSE NumField(tok, 1, 31)

\* fields checked by the datetime constructor
ValidDate(y, m, d) == y >= 1 /\ m >= 1 /\ d >= 1 /\ d <= DaysInMonth(y, m)

\* %H:%M:%S
TimeFields(tok) ==
    LET p == Split(tok, ":") IN
    IF Len(p) # 3 THEN << -1, -1, -1 >>
    ELSE << NumField(p[1], 0, 23), NumField(p[2], 0, 59), NumField(p[3], 0, 59) >>

\* '%Y-%m-%d'
StrptimeYmd(s) ==
    LET p == Split(s, "-") IN
    IF Len(p) # 3 \/ Len(p[1]) # 4 \/ ~IsDigits(p[1]) THEN NoMatch
    ELSE LET y == ParseInt(p[1])
             m == NumField(p[2], 1, 12)
             d == DayField(p[3])
         IN  IF ValidDate(y, m, d) THEN DateTime(y, m, d, 0, 0, 0) ELSE NoMatch

\* '%Y-%m-%dT%H:%M:%S'
StrptimeIso(s) ==
    LET p == Split(s, "T") IN
    IF Len(p) # 2 \/ StrptimeYmd(p[1]) = NoMatch THEN NoMatch
    ELSE LET t == TimeFields(p[2])
             d == StrptimeYmd(p[1])
         IN  IF t[1] < 0 \/ t[2] < 0 \/ t[3] < 0 THEN NoMatch
             ELSE DateTime(d.year, d.month, d.day, t[1], t[2], t[3])

WeekdayAbbr == << "mon", "tue", "wed", "thu", "fri", "sat", "sun" >>
MonthAbbr   == << "jan", "feb", "mar", "apr", "may", "jun",
                  "jul", "aug", "sep", "oct", "nov", "dec" >>

IndexOf(x, seq) ==
    IF \E i \in 1..Len(seq) : seq[i] = x
    THEN CHOOSE i \in 1..Len(seq) : seq[i] = x ELSE 0

\* the fields of s separated by runs of spaces (the format's ' ' matches \s+)
Fields(s) == SelectSeq(Split(s, " "), LAMBDA f : f # "")

\* the names %Z accepts: utc, gmt and the host's time.tzname
ZoneNames(tz) == {"utc", "gmt"} \cup {lower(tz[i]) : i \in 1..Len(tz)}

\* '%a, %d %b %Y %H:%M:%S %Z'; matching ignores case, and the weekday is not
\* checked against the date
StrptimeRfc(s, tz) ==
    LET f == Fields(s) IN
    IF s = "" \/ CharAt(s, 1) = " " \/ CharAt(s, Len(s)) = " " \/ Len(f) # 6
    THEN NoMatch
    ELSE LET a  == lower(f[1])
             d  == DayField(f[2])
             mo == IndexOf(lower(f[3]), MonthAbbr)
             t  == TimeFields(f[5])
         IN  IF /\ Len(a) = 4 /\ CharAt(a, 4) = ","
                /\ IndexOf(SubSeq(a, 1, 3), WeekdayAbbr) > 0
                /\ mo > 0
                /\ Len(f[4]) = 4 /\ IsDigits(f[4])
                /\ ValidDate(ParseInt(f[4]), mo, d)
                /\ t[1] >= 0 /\ t[2] >= 0 /\ t[3] >= 0
                /\ lower(f[6]) \in ZoneNames(tz)
             THEN DateTime(ParseInt(f[4]), mo, d, t[1], t[2], t[3])
             ELSE NoMatch

StrptimeScan(s, fmt, tz) ==
    CASE fmt = "%Y-%m-%d" -> StrptimeYmd(s)
      [] fmt = "%Y-%m-%dT%H:%M:%S" -> StrptimeIso(s)
      [] fmt = "%a, %d %b %Y %H:%M:%S %Z" -> StrptimeRfc(s, tz)

ParseFormats == { "%Y-%m-%d", "%Y-%m-%dT%H:%M:%S", "%a, %d %b %Y %H:%M:%S %Z" }
ParseInputs  == DateStrings \cup {SplitFirst(d, "T") : d \in DateStrings}

StrptimeTable ==
    [s \in ParseInputs, fmt \in ParseFormats, tz \in HostZones |->
        StrptimeScan(s, fmt, tz)]

\* datetime.strptime(s, fmt) on a host whose time.tzname is tz
strptime(s, fmt, tz) ==
    IF s \in ParseInputs /\ fmt \in ParseFormats /\ tz \in HostZones
    THEN StrptimeTable[s, fmt, tz] ELSE StrptimeScan(s, fmt, tz)

(***************************************************************************)
(* Python re operations used by the processor                              *)
(***************************************************************************)
Whitespace == " \t\n"
WordChars  == LowerCase \o UpperCase \o Digits \o "_"
AsciiOrder ==
    " !#$%&'()*+,-./0123456789:;<=>?@ABCDEFGHIJKLMNOPQRSTUVWXYZ[]^_abcdefghijklmnopqrstuvwxyz{|}~"

IsSpace(c) == IndexIn(c, Whitespace) > 0

\* a < b on str: by code point, a proper prefix first
RECURSIVE StrLessFrom(_, _, _)
StrLessFrom(a, b, i) ==
    IF i > Len(b) THEN FALSE
    ELSE IF i > Len(a) THEN TRUE
    ELSE LET x == IndexIn(CharAt(a, i), AsciiOrder)
             y == IndexIn(CharAt(b, i), AsciiOrder)
         IN  IF x # y THEN x < y ELSE StrLessFrom(a, b, i + 1)

StrLess(a, b) == StrLessFrom(a, b, 1)

\* re.findall(r'\b\w+\b', s) as a set: the maximal runs of word characters
RECURSIVE WordsFrom(_, _, _)
WordsFrom(s, start, i) ==
    IF i > Len(s)
    THEN (IF start < i THEN {SubSeq(s, start, i - 1)} ELSE {})
    ELSE IF IndexIn(CharAt(s, i), WordChars) > 0
         THEN WordsFrom(s, start, i + 1)
         ELSE (IF start < i THEN {SubSeq(s, start, i - 1)} ELSE {})
              \cup WordsFrom(s, i + 1, i + 1)

WordTable == [t \in Titles |-> WordsFrom(LowerTable[t], 1, 1)]

WordSet(s) ==
    IF \E t \in Titles : LowerTable[t] = s
    THEN WordTable[CHOOSE t \in Titles : LowerTable[t] = s]
    ELSE WordsFrom(s, 1, 1)

\* re.sub(r'\s+', ' ', s)
\* what the characters lo..hi of s become: a run of white space becomes one
\* space, written at the first character of the run
RECURSIVE CollapseFrom(_, _, _)
CollapseFrom(s, lo, hi) ==
    IF lo > hi THEN ""
    ELSE IF lo = hi
         THEN IF IsSpace(CharAt(s, lo))
              THEN (IF lo > 1 /\ IsSpace(CharAt(s, lo - 1)) THEN "" ELSE " ")
              ELSE CharAt(s, lo)
         ELSE LET mid == (lo + hi) \div 2
              IN  CollapseFrom(s, lo, mid) \o CollapseFrom(s, mid + 1, hi)

CollapseSpaces(s) == CollapseFrom(s, 1, Len(s))

\* str.strip()
RECURSIVE LStripIndex(_, _)
LStripIndex(s, i) ==
    IF i <= Len(s) /\ IsSpace(CharAt(s, i)) THEN LStripIndex(s, i + 1) ELSE i

RECURSIVE RStripIndex(_, _)
RStripIndex(s, j) ==
    IF j >= 1 /\ IsSpace(CharAt(s, j)) THEN RStripIndex(s, j - 1) ELSE j

strip(s) == SubSeq(s, LStripIndex(s, 1), RStripIndex(s, Len(s)))

\* re.split(r'[.!?]+', s): the pieces between runs of sentence terminators
\* the first position in lo..hi of s that holds a terminator (terminator =
\* TRUE) or another character (terminator = FALSE), 0 when there is none
RECURSIVE FirstIn(_, _, _, _)
FirstIn(s, lo, hi, terminator) ==
    IF lo > hi THEN 0
    ELSE IF lo = hi
         THEN IF (IndexIn(CharAt(s, lo), ".!?") > 0) = terminator THEN lo ELSE 0
         ELSE LET mid  == (lo + hi) \div 2
                  left == FirstIn(s, lo, mid, terminator)
              IN  IF left # 0 THEN left ELSE FirstIn(s, mid + 1, hi, terminator)

\* the pieces of s from start on; a run of terminators at the end of s leaves
\* an empty last piece
RECURSIVE SentencesFrom(_, _)
SentencesFrom(s, start) ==
    LET t == FirstIn(s, start, Len(s), TRUE) IN
    IF t = 0 THEN << SubSeq(s, start, Len(s)) >>
    ELSE LET n == FirstIn(s, t, Len(s), FALSE)
         IN  << SubSeq(s, start, t - 1) >>
                 \o (IF n = 0 THEN << "" >> ELSE SentencesFrom(s, n))

SplitSentences(s) == SentencesFrom(s, 1)

(***************************************************************************)
(* ContentProcessor._generate_summary                                      *)
(***************************************************************************)
\* mutant of SummaryLoop: a fourth sentence is let in
RECURSIVE SummaryLoopFourth(_, _, _, _, _)
SummaryLoopFourth(sentences, i, summary, char_count, sentence_count) ==
    IF i > Len(sentences) THEN summary
    ELSE LET sentence == strip(sentences[i]) IN
         IF sentence = ""
         THEN SummaryLoopFourth(sentences, i + 1, summary, char_count, sentence_count)
         ELSE IF char_count + Len(sentence) > 200 \/ sentence_count > 3
         THEN summary
         ELSE SummaryLoopFourth(sentences, i + 1, summary \o sentence \o ". ",
                                char_count + Len(sentence), sentence_count + 1)

RECURSIVE SummaryLoop(_, _, _, _, _)
SummaryLoop(sentences, i, summary, char_count, sentence_count) ==
    IF i > Len(sentences) THEN summary
    ELSE LET sentence == strip(sentences[i]) IN
         IF sentence = ""
         THEN SummaryLoop(sentences, i + 1, summary, char_count, sentence_count)
         ELSE IF char_count + Len(sentence) > 200 \/ sentence_count >= 3
         THEN summary
         ELSE SummaryLoop(sentences, i + 1, summary \o sentence \o ". ",
                          char_count + Len(sentence), sentence_count + 1)

_generate_summary(content) ==
    IF content = "" THEN ""
    ELSE strip(SummaryLoop(SplitSentences(strip(CollapseSpaces(content))), 1, "", 0, 0))

(***************************************************************************)
(* ContentProcessor._is_duplicate                                          *)
(***************************************************************************)
\* hashlib.md5(text.encode()).hexdigest(): a digest that differs for
\* different texts and from the text itself
Md5Hex(text) == "md5:" \o text

\* mutant of _is_duplicate: the membership test is lost
IsDuplicateNeverSeen(article, seen) ==
    LET article_hash == Get(article, "hash", "")
        content      == Get(article, "title", "") \o Get(article, "content", "")
    IN  [article |-> IF article_hash = ""
                     THEN Put(article, "hash", Md5Hex(content)) ELSE article,
         dup |-> FALSE]

\* mutant of _is_duplicate: an empty hash is taken as given
IsDuplicateKeepsEmptyHash(article, seen) ==
    LET content == Get(article, "title", "") \o Get(article, "content", "")
        hashed  == IF "hash" \notin DOMAIN article
                   THEN Put(article, "hash", Md5Hex(content))
                   ELSE article
    IN  [article |-> hashed, dup |-> hashed["hash"] \in seen]

\* The article as the call leaves it (a missing or empty hash is filled in from
\* title and content) and the value returned.
_is_duplicate(article, seen) ==
    LET article_hash == Get(article, "hash", "")
        content      == Get(article, "title", "") \o Get(article, "content", "")
        hashed       == IF article_hash = ""
                        THEN Put(article, "hash", Md5Hex(content))
                        ELSE article
    IN  [article |-> hashed, dup |-> hashed["hash"] \in seen]

(***************************************************************************)
(* ContentProcessor.process_articles                                       *)
(***************************************************************************)
\* the sort key (x['relevance_score'], x.get('date', '')) compared as a tuple
KeyLess(x, y) ==
    \/ x["relevance_score"] < y["relevance_score"]
    \/ /\ x["relevance_score"] = y["relevance_score"]
       /\ StrLess(Get(x, "date", ""), Get(y, "date", ""))

\* mutant of InsertDesc: x goes before the elements whose key equals its own
RECURSIVE InsertDescBeforeEqual(_, _)
InsertDescBeforeEqual(sorted, x) ==
    IF sorted = << >> THEN << x >>
    ELSE IF ~KeyLess(x, Head(sorted)) THEN << x >> \o sorted
    ELSE << Head(sorted) >> \o InsertDescBeforeEqual(Tail(sorted), x)

\* list.sort(key, reverse=True) is stable: x goes after every element whose key
\* is not smaller than its own
RECURSIVE InsertDesc(_, _)
InsertDesc(sorted, x) ==
    IF sorted = << >> THEN << x >>
    ELSE IF KeyLess(Head(sorted), x) THEN << x >> \o sorted
    ELSE << Head(sorted) >> \o InsertDesc(Tail(sorted), x)

RECURSIVE SortDescFrom(_, _, _)
SortDescFrom(list, i, sorted) ==
    IF i > Len(list) THEN sorted
    ELSE SortDescFrom(list, i + 1, InsertDesc(sorted, list[i]))

SortDesc(list) == SortDescFrom(list, 1, << >>)

\* lines 47-50: the four fields written to an accepted article
Enrich(article, relevance_score, clock) ==
    LET a1 == Put(article, "relevance_score", relevance_score)
        a2 == Put(a1, "processed_date", isoformat(clock))
        a3 == Put(a2, "summary", _generate_summary(Get(a2, "content", "")))
    IN  Put(a3, "priority", _determine_priority(a3, relevance_score))

\* mutant of Relevant: a score of two does not pass
RelevantFromThree(relevance_score) == relevance_score >= 3

\* mutant of Relevant: a score of zero passes
RelevantFromZero(relevance_score) == relevance_score >= 0

\* mutant of Relevant: the threshold is off by one
RelevantFromOne(relevance_score) == relevance_score >= 1

\* the minimum threshold for AI relevance
Relevant(relevance_score) == relevance_score >= 2

\* mutant of MarkSeen: the url is recorded in place of the hash
MarkSeenUrl(seen, article) == seen \cup {Get(article, "url", "")}

\* mutant of MarkSeen: the hash is never recorded
MarkSeenForgets(seen, article) == seen

\* mutant of MarkSeen: the title is recorded in place of the hash
MarkSeenTitle(seen, article) == seen \cup {article["title"]}

\* self.seen_hashes.add(article['hash'])
MarkSeen(seen, article) == seen \cup {article["hash"]}

\* mutant of ProcessStep: the fields are written before the threshold is tested
ProcessStepEnrichFirst(st, article, clock) ==
    LET r        == _is_duplicate(article, st.seen)
        score    == _calculate_relevance_score(r.article)
        enriched == Enrich(r.article, score, clock)
    IN  IF r.dup THEN [st EXCEPT !.articles = Append(@, r.article)]
        ELSE IF Relevant(score)
        THEN [articles  |-> Append(st.articles, enriched),
              processed |-> Append(st.processed, enriched),
              seen      |-> MarkSeen(st.seen, enriched)]
        ELSE [st EXCEPT !.articles = Append(@, enriched)]

\* one iteration of the for loop on article: st.processed is
\* processed_articles, st.seen is seen_hashes and st.articles are the caller's
\* dicts read so far, as the loop leaves them
ProcessStep(st, article, clock) ==
    LET r        == _is_duplicate(article, st.seen)
        score    == _calculate_relevance_score(r.article)
        enriched == Enrich(r.article, score, clock)
    IN  IF r.dup THEN [st EXCEPT !.articles = Append(@, r.article)]
        ELSE IF Relevant(score)
        THEN [articles  |-> Append(st.articles, enriched),
              processed |-> Append(st.processed, enriched),
              seen      |-> MarkSeen(st.seen, enriched)]
        ELSE [st EXCEPT !.articles = Append(@, r.article)]

RECURSIVE ProcessLoop(_, _, _, _)
ProcessLoop(articles, i, st, clock) ==
    IF i > Len(articles) THEN st
    ELSE ProcessLoop(articles, i + 1, ProcessStep(st, articles[i], clock), clock)

\* [articles: the caller's list after the call, processed: the list returned,
\*  seen: seen_hashes after the call]
process_articles(articles, seen, clock) ==
    LET st == ProcessLoop(articles, 1,
                  [articles |-> << >>, processed |-> << >>, seen |-> seen], clock)
    IN  [st EXCEPT !.processed = SortDesc(st.processed)]

(***************************************************************************)
(* ContentProcessor.deduplicate_articles                                   *)
(***************************************************************************)
\* mutant of Overlaps: >= 0.8 instead of > 0.8
OverlapsAtLeast(title_words, seen_words) ==
    5 * Cardinality(title_words \cap seen_words) >= 4 * Max(Cardinality(title_words), 1)

\* len(title_words & seen_words) / max(len(title_words), 1) > 0.8
Overlaps(title_words, seen_words) ==
    5 * Cardinality(title_words \cap seen_words) > 4 * Max(Cardinality(title_words), 1)

\* the inner loop over seen_titles
IsNearDuplicate(title, seen_titles) ==
    \E seen_title \in seen_titles : Overlaps(WordSet(title), WordSet(seen_title))

\* mutant of DedupLoop: a near-duplicate replaces the article it duplicates
RECURSIVE DedupLoopLastWins(_, _, _, _)
DedupLoopLastWins(articles, i, unique_articles, seen_titles) ==
    IF i > Len(articles) THEN unique_articles
    ELSE LET title == lower(Get(articles[i], "title", ""))
             Dup(k) == Overlaps(WordSet(title),
                                WordSet(lower(Get(unique_articles[k], "title", ""))))
         IN  IF \E k \in DOMAIN unique_articles : Dup(k)
             THEN DedupLoopLastWins(articles, i + 1,
                      [unique_articles EXCEPT
                          ![CHOOSE k \in DOMAIN unique_articles :
                              Dup(k) /\ \A m \in 1..(k - 1) : ~Dup(m)] = articles[i]],
                      seen_titles)
             ELSE DedupLoopLastWins(articles, i + 1,
                      Append(unique_articles, articles[i]), seen_titles)

RECURSIVE DedupLoop(_, _, _, _)
DedupLoop(articles, i, unique_articles, seen_titles) ==
    IF i > Len(articles) THEN unique_articles
    ELSE LET title == lower(Get(articles[i], "title", "")) IN
         IF IsNearDuplicate(title, seen_titles)
         THEN DedupLoop(articles, i + 1, unique_articles, seen_titles)
         ELSE DedupLoop(articles, i + 1, Append(unique_articles, articles[i]),
                        seen_titles \cup {title})

deduplicate_articles(articles) == DedupLoop(articles, 1, << >>, {})

(***************************************************************************)
(* ContentProcessor.filter_by_date                                         *)
(***************************************************************************)
date_formats == << "%Y-%m-%d", "%Y-%m-%dT%H:%M:%S", "%a, %d %b %Y %H:%M:%S %Z" >>

\* datetime.strptime(article_date_str.split('T')[0], date_format.split('T')[0])
ParseAttempt(article_date_str, date_format, tz) ==
    strptime(SplitFirst(article_date_str, "T"), SplitFirst(date_format, "T"), tz)

\* mutant of FormatLoop: the else branch of the loop is lost
RECURSIVE FormatLoopNoElse(_, _, _, _)
FormatLoopNoElse(article, k, cutoff_date, tz) ==
    IF k > Len(date_formats) THEN << >>
    ELSE LET article_date ==
                 ParseAttempt(Get(article, "date", ""), date_formats[k], tz)
         IN  IF article_date # NoMatch
             THEN (IF InstantGe(Instant(article_date), cutoff_date)
                   THEN << article >> ELSE << >>)
             ELSE FormatLoopNoElse(article, k + 1, cutoff_date, tz)

\* the loop over the formats for one article, from format k on: the articles it
\* appends to filtered_articles.  The first format that parses decides and
\* breaks; the loop's else branch appends when none parsed.  (The outer except
\* is reached only by a date that is not a str, which no scraper produces.)
RECURSIVE FormatLoop(_, _, _, _)
FormatLoop(article, k, cutoff_date, tz) ==
    IF k > Len(date_formats) THEN << article >>
    ELSE LET article_date ==
                 ParseAttempt(Get(article, "date", ""), date_formats[k], tz)
         IN  IF article_date # NoMatch
             THEN (IF InstantGe(Instant(article_date), cutoff_date)
                   THEN << article >> ELSE << >>)
             ELSE FormatLoop(article, k + 1, cutoff_date, tz)

RECURSIVE FilterLoop(_, _, _, _, _)
FilterLoop(articles, i, filtered_articles, cutoff_date, tz) ==
    IF i > Len(articles) THEN filtered_articles
    ELSE FilterLoop(articles, i + 1,
                    filtered_articles \o FormatLoop(articles[i], 1, cutoff_date, tz),
                    cutoff_date, tz)

CutoffDate(clock, days_back) == MinusDays(Instant(clock), days_back)

filter_by_date(articles, days_back, clock, tz) ==
    FilterLoop(articles, 1, << >>, CutoffDate(clock, days_back), tz)

(***************************************************************************)
(* ContentProcessor.get_trending_topics                                    *)
(***************************************************************************)
\* self.ai_keywords.values(): the lists in the order of the dict literal
keyword_lists == << high_priority, medium_priority, tech_context >>

\* topic_counts[keyword] += 1 on a defaultdict(int).  The dict is the sequence
\* of its items << key, value >> in insertion order: a new key goes last.
Increment(topic_counts, keyword) ==
    IF \E n \in DOMAIN topic_counts : topic_counts[n][1] = keyword
    THEN [n \in DOMAIN topic_counts |->
             IF topic_counts[n][1] = keyword
             THEN << keyword, topic_counts[n][2] + 1 >> ELSE topic_counts[n]]
    ELSE Append(topic_counts, << keyword, 1 >>)

\* for keyword in keyword_list: if keyword in combined_text.  The loop acts
\* on the keywords of the list that are found, in the order of the list.
RECURSIVE KeywordLoop(_, _, _)
KeywordLoop(found, k, topic_counts) ==
    IF k > Len(found) THEN topic_counts
    ELSE KeywordLoop(found, k + 1, Increment(topic_counts, found[k]))

\* for keyword_list in self.ai_keywords.values()
RECURSIVE KeywordListLoop(_, _, _)
KeywordListLoop(l, combined, topic_counts) ==
    IF l > Len(keyword_lists) THEN topic_counts
    ELSE KeywordListLoop(l + 1, combined,
            KeywordLoop(SelectSeq(keyword_lists[l],
                                  LAMBDA keyword : Contains(keyword, combined)),
                        1, topic_counts))

\* for article in articles
RECURSIVE TopicLoop(_, _, _)
TopicLoop(articles, i, topic_counts) ==
    IF i > Len(articles) THEN topic_counts
    ELSE TopicLoop(articles, i + 1,
            KeywordListLoop(1, combined_text(articles[i]), topic_counts))

\* sorted(items, key=lambda x: x[1], reverse=True) is stable: an item goes
\* after every item whose count is not smaller than its own
RECURSIVE InsertByCount(_, _)
InsertByCount(sorted, item) ==
    IF sorted = << >> THEN << item >>
    ELSE IF Head(sorted)[2] < item[2] THEN << item >> \o sorted
    ELSE << Head(sorted) >> \o InsertByCount(Tail(sorted), item)

RECURSIVE SortByCountFrom(_, _, _)
SortByCountFrom(items, n, sorted) ==
    IF n > Len(items) THEN sorted
    ELSE SortByCountFrom(items, n + 1, InsertByCount(sorted, items[n]))

\* mutant of TopTen: the slice is lost
TopUncut(items) == items

\* items[:10]
TopTen(items) == SubSeq(items, 1, Min(Len(items), 10))

\* the dict returned, as the sequence of its items in insertion order
get_trending_topics(articles) ==
    TopTen(SortByCountFrom(TopicLoop(articles, 1, << >>), 1, << >>))

(***************************************************************************)
(* Bounds of the model                                                     *)
(***************************************************************************)
MaxBatch == 2   \* longest list handed to process_articles
MaxRuns  == 2   \* process_articles calls on one ContentProcessor instance
MaxTicks == 2   \* half days between the earliest and the latest clock reading
MaxList  == 2   \* longest list handed to filter_by_date on its own
MaxTitles == 3  \* longest list handed to deduplicate_articles on its own
MaxScore == 12  \* largest score handed to _determine_priority on its own
MaxTopics == 3  \* longest list handed to get_trending_topics on its own
MaxSentences == 4  \* most pieces a content handed to _generate_summary is made of
MaxAccept == 2  \* longest list of SpecAccept
MaxRequests == 2  \* most requests scrape_source makes for one source
MaxRetries == 3  \* largest max_retries handed to _make_request

(***************************************************************************)
(* The host clock                                                          *)
(***************************************************************************)
ClockStart == DateTime(2024, 1, 10, 0, 0, 0)

\* the clock twelve hours later
HalfDayLater(dt) ==
    IF dt.hour < 12 THEN [dt EXCEPT !.hour = dt.hour + 12]
    ELSE IF dt.day < DaysInMonth(dt.year, dt.month)
         THEN [dt EXCEPT !.hour = dt.hour - 12, !.day = dt.day + 1]
    ELSE IF dt.month < 12
         THEN [dt EXCEPT !.hour = dt.hour - 12, !.day = 1, !.month = dt.month + 1]
    ELSE [dt EXCEPT !.hour = dt.hour - 12, !.day = 1, !.month = 1,
                    !.year = dt.year + 1]

RECURSIVE ClockAfter(_)
ClockAfter(halfDays) ==
    IF halfDays = 0 THEN ClockStart ELSE HalfDayLater(ClockAfter(halfDays - 1))

ClockValues == {ClockAfter(k) : k \in 0..MaxTicks}

(***************************************************************************)
(* Records as the scrapers build them (web_scraper.py: a page carries the  *)
(* hash of its title and content, a feed entry carries none)               *)
(***************************************************************************)
FeedArticle(title, content, url, source, date) ==
    [title |-> title, content |-> content, url |-> url, source |-> source,
     date |-> date]

PageArticle(title, content, url, source, date) ==
    Put(FeedArticle(title, content, url, source, date), "hash",
        Md5Hex(title \o content))

RawArticles ==
    { PageArticle("OpenAI releases GPT-5 model today",
                  "OpenAI announces major funding round.",
                  "https://technews.example/gpt5", "TechNews", "2024-01-09"),
      FeedArticle("OpenAI releases GPT-5 model today",
                  "OpenAI announces major funding round.",
                  "https://technews.example/feed/1", "TechNews",
                  "Tue, 09 Jan 2024 10:00:00 GMT"),
      PageArticle("OpenAI releases GPT-5 model", "New NLP algorithm study",
                  "https://aiweekly.example/gpt5", "AIWeekly",
                  "2024-01-02T08:00:00"),
      PageArticle("Cloud platform news", "",
                  "https://news.example/cloud", "News", "not a date"),
      FeedArticle("Software notes", "",
                  "https://news.example/notes", "News", "2024-01-03") }

\* the lists over pool of at most n elements
RECURSIVE ListsUpTo(_, _)
ListsUpTo(pool, n) ==
    IF n = 0 THEN { << >> }
    ELSE LET shorter == ListsUpTo(pool, n - 1)
         IN  shorter \cup { Append(l, x) : l \in shorter, x \in pool }

\* days_back as main.py passes it, and other windows a caller may ask for
DefaultDaysBack == 7
DaysBackValues == {0, 1, DefaultDaysBack}

NoCall == [op |-> "none"]

\* execute_intelligence_gathering is not running
NoRun ==
    /\ futures = << >>
    /\ all_articles = << >>
    /\ trending_topics = << >>

\* the instance has a single caller
NoThreads == threads = << >>

\* WebScraper(): the default rate_limit, and no request made yet
NewScraper == scraper = [rate_limit |-> 2, last_request_time |-> {}]

(***************************************************************************)
(* Spec: one ContentProcessor instance used from a single thread           *)
(***************************************************************************)
Init ==
    /\ seen_hashes = {}
    /\ accepted = << >>
    /\ batch = << >>
    /\ processed = << >>
    /\ result = << >>
    /\ lastOp = [name |-> "__init__"]
    /\ runs = 0
    /\ pc = "idle"
    /\ now = ClockStart
    /\ tzname = << "UTC", "UTC" >>
    /\ fn = NoCall
    /\ NoRun
    /\ NoThreads
    /\ NewScraper

\* process_articles is called: processed_articles = []
CallProcessArticles ==
    /\ pc = "idle"
    /\ runs < MaxRuns
    /\ pc' = "process_articles"
    /\ batch' = << >>
    /\ processed' = << >>
    /\ UNCHANGED <<seen_hashes, accepted, result, lastOp, runs, now, tzname, fn,
                 futures, all_articles, trending_topics, threads, scraper>>

\* one iteration of the loop, on the next article of the caller's list
ProcessArticle(article) ==
    /\ pc = "process_articles"
    /\ Len(batch) < MaxBatch
    /\ LET st == ProcessStep([articles |-> batch, processed |-> processed,
                              seen |-> seen_hashes], article, now)
       IN  /\ batch' = st.articles
           /\ processed' = st.processed
           /\ seen_hashes' = st.seen
           /\ accepted' = accepted \o SubSeq(st.processed, Len(processed) + 1,
                                             Len(st.processed))
    /\ UNCHANGED <<result, lastOp, runs, pc, now, tzname, fn,
                 futures, all_articles, trending_topics, threads, scraper>>

\* the list is exhausted: sort and return
ReturnProcessed ==
    /\ pc = "process_articles"
    /\ result' = SortDesc(processed)
    /\ processed' = << >>
    /\ lastOp' = [name |-> "process_articles"]
    /\ runs' = runs + 1
    /\ pc' = "idle"
    /\ UNCHANGED <<seen_hashes, accepted, batch, now, tzname, fn,
                 futures, all_articles, trending_topics, threads, scraper>>

\* mutant of FilterByDate: the hashes of the records dropped leave seen_hashes
FilterByDateForgets(days_back) ==
    /\ pc = "idle"
    /\ lastOp.name = "process_articles"
    /\ batch' = result
    /\ result' = filter_by_date(result, days_back, now, tzname)
    /\ seen_hashes' = seen_hashes \ {result[n]["hash"] : n \in
           {k \in DOMAIN result :
               result[k] \notin Range(filter_by_date(result, days_back, now, tzname))}}
    /\ lastOp' = [name |-> "filter_by_date", days_back |-> days_back]
    /\ UNCHANGED <<accepted, processed, runs, pc, now, tzname, fn,
                 futures, all_articles, trending_topics, threads, scraper>>

\* the caller passes the returned list on to filter_by_date
FilterByDate(days_back) ==
    /\ pc = "idle"
    /\ lastOp.name = "process_articles"
    /\ batch' = result
    /\ result' = filter_by_date(result, days_back, now, tzname)
    /\ lastOp' = [name |-> "filter_by_date", days_back |-> days_back]
    /\ UNCHANGED <<seen_hashes, accepted, processed, runs, pc, now, tzname, fn,
                 futures, all_articles, trending_topics, threads, scraper>>

\* the caller passes the returned list on to deduplicate_articles
DeduplicateArticles ==
    /\ pc = "idle"
    /\ lastOp.name \in {"process_articles", "filter_by_date"}
    /\ batch' = result
    /\ result' = deduplicate_articles(result)
    /\ lastOp' = [name |-> "deduplicate_articles", after |-> lastOp.name]
    /\ UNCHANGED <<seen_hashes, accepted, processed, runs, pc, now, tzname, fn,
                 futures, all_articles, trending_topics, threads, scraper>>

Next ==
    \/ CallProcessArticles
    \/ \E article \in RawArticles : ProcessArticle(article)
    \/ ReturnProcessed
    \/ \E days_back \in DaysBackValues : FilterByDate(days_back)
    \/ DeduplicateArticles

Spec == Init /\ [][Next]_vars

(***************************************************************************)
(* Single calls of the functions: the state the instance is left in        *)
(***************************************************************************)
Untouched ==
    /\ seen_hashes = {}
    /\ accepted = << >>
    /\ batch = << >>
    /\ processed = << >>
    /\ result = << >>
    /\ lastOp = [name |-> "__init__"]
    /\ runs = 0
    /\ pc = "idle"
    /\ NoRun
    /\ NoThreads
    /\ NewScraper

instance == <<seen_hashes, accepted, batch, processed, result, lastOp, runs, pc,
              futures, all_articles, trending_topics, threads, scraper>>

\* articles of every title and content, with and without the other keys
TextArticles == [title : Titles, content : Contents]

ScoreInputs ==
    TextArticles \cup RawArticles
    \cup {[title |-> t] : t \in Titles} \cup {[content |-> c] : c \in Contents}

(***************************************************************************)
(* SpecScore: one call of _calculate_relevance_score                       *)
(***************************************************************************)
ScoreInit ==
    /\ Untouched
    /\ now = ClockStart
    /\ tzname = << "UTC", "UTC" >>
    /\ fn \in {[op |-> "none", article |-> a] : a \in ScoreInputs}

CalculateRelevanceScore ==
    /\ fn.op = "none"
    /\ fn' = [op |-> "_calculate_relevance_score", article |-> fn.article,
              ret |-> _calculate_relevance_score(fn.article)]
    /\ UNCHANGED <<instance, now, tzname>>

SpecScore == ScoreInit /\ [][CalculateRelevanceScore]_vars

(***************************************************************************)
(* SpecPriority: one call of _determine_priority                           *)
(***************************************************************************)
PriorityInit ==
    /\ Untouched
    /\ now = ClockStart
    /\ tzname = << "UTC", "UTC" >>
    /\ fn \in {[op |-> "none", article |-> a, relevance_score |-> score] :
                  a \in TextArticles, score \in 0..MaxScore}

DeterminePriority ==
    /\ fn.op = "none"
    /\ fn' = [op |-> "_determine_priority", article |-> fn.article,
              relevance_score |-> fn.relevance_score,
              ret |-> _determine_priority(fn.article, fn.relevance_score)]
    /\ UNCHANGED <<instance, now, tzname>>

SpecPriority == PriorityInit /\ [][DeterminePriority]_vars

(***************************************************************************)
(* SpecDedup: deduplicate_articles on a list, and again on what it returns *)
(***************************************************************************)
Scored(title, content) ==
    [title |-> title, content |-> content,
     relevance_score |->
         _calculate_relevance_score([title |-> title, content |-> content])]

DedupArticles ==
    { Scored("OpenAI releases GPT-5 model today", "New NLP algorithm study"),
      Scored("OpenAI releases GPT-5 model", ""),
      Scored("OpenAI releases GPT-5 update", ""),
      Scored("GPT-5 model today", ""),
      Scored("Google releases Gemini 2", "the paper"),
      Scored("", "New NLP algorithm study") }

DedupInit ==
    /\ Untouched
    /\ now = ClockStart
    /\ tzname = << "UTC", "UTC" >>
    /\ fn \in {[op |-> "none", articles |-> l] :
                  l \in ListsUpTo(DedupArticles, MaxTitles)}

Deduplicate ==
    /\ fn.op = "none"
    /\ fn' = [op |-> "deduplicate_articles", articles |-> fn.articles,
              ret |-> deduplicate_articles(fn.articles)]
    /\ UNCHANGED <<instance, now, tzname>>

DeduplicateAgain ==
    /\ fn.op = "deduplicate_articles"
    /\ fn' = [op |-> "deduplicate_articles twice", articles |-> fn.articles,
              ret |-> fn.ret, ret2 |-> deduplicate_articles(fn.ret)]
    /\ UNCHANGED <<instance, now, tzname>>

DedupNext == Deduplicate \/ DeduplicateAgain

SpecDedup == DedupInit /\ [][DedupNext]_vars

(***************************************************************************)
(* SpecDate: one call of filter_by_date, at any clock reading and on any   *)
(* host                                                                    *)
(***************************************************************************)
DatedArticles ==
    {[title |-> "Dated", date |-> d] : d \in DateStrings}
    \cup {[title |-> "Undated"]}

DateInit ==
    /\ Untouched
    /\ now \in ClockValues
    /\ tzname \in HostZones
    /\ fn \in {[op |-> "none", articles |-> l, days_back |-> d] :
                  l \in ListsUpTo(DatedArticles, MaxList), d \in DaysBackValues}

FilterCall ==
    /\ fn.op = "none"
    /\ fn' = [op |-> "filter_by_date", articles |-> fn.articles,
              days_back |-> fn.days_back,
              ret |-> filter_by_date(fn.articles, fn.days_back, now, tzname)]
    /\ UNCHANGED <<instance, now, tzname>>

SpecDate == DateInit /\ [][FilterCall]_vars

(***************************************************************************)
(* SpecTrending: one call of get_trending_topics                           *)
(***************************************************************************)
TrendArticles ==
    { [title |-> "NLP algorithm update",
       content |-> "Investment in cloud saas api platform"],
      [title |-> "OpenAI releases GPT-5 model today",
       content |-> "learning about technology software startup"],
      [title |-> "Keras notes", content |-> "New NLP algorithm study"],
      [title |-> "Machine",
       content |-> "learning about technology software startup"],
      [title |-> "Weather forecast for Tuesday",
       content |-> "sunny skies expected"],
      [url |-> "https://news.example/empty"] }

TrendingInit ==
    /\ Untouched
    /\ now = ClockStart
    /\ tzname = << "UTC", "UTC" >>
    /\ fn \in {[op |-> "none", articles |-> l] :
                  l \in ListsUpTo(TrendArticles, MaxTopics)}

GetTrendingTopics ==
    /\ fn.op = "none"
    /\ fn' = [op |-> "get_trending_topics", articles |-> fn.articles,
              ret |-> get_trending_topics(fn.articles)]
    /\ UNCHANGED <<instance, now, tzname>>

SpecTrending == TrendingInit /\ [][GetTrendingTopics]_vars

(***************************************************************************)
(* SpecBatch: a new instance and one call of process_articles on a list    *)
(***************************************************************************)
BatchArticles ==
    { FeedArticle("Keras notes", "", "https://news.example/keras", "RSS",
                  "2024-01-09"),
      PageArticle("Keras notes", "the paper", "https://news.example/paper",
                  "news.example", "2024-01-09"),
      PageArticle("Keras notes", "the paper", "https://mirror.example/paper",
                  "mirror.example", "2024-01-03"),
      FeedArticle("Keras notes", "sunny skies expected",
                  "https://news.example/sunny", "RSS",
                  "Mon, 01 Jan 2024 10:00:00 GMT"),
      [title |-> "NLP algorithm update", content |-> "",
       url |-> "https://news.example/nlp", source |-> "RSS"],
      FeedArticle("Software notes", "", "https://news.example/notes", "RSS",
                  "2024-01-09"),
      PageArticle("Software notes", "", "https://news.example/notes2",
                  "news.example", "2024-01-03") }

BatchInit ==
    /\ Untouched
    /\ now = ClockStart
    /\ tzname = << "UTC", "UTC" >>
    /\ fn \in {[op |-> "none", articles |-> l] :
                  l \in ListsUpTo(BatchArticles, MaxBatch)}

\* the whole call: batch is the caller's list as the call leaves it, processed
\* is processed_articles in the order of the appends, result the list returned
ProcessBatch ==
    /\ fn.op = "none"
    /\ pc = "idle"
    /\ \E st \in {ProcessLoop(fn.articles, 1,
                      [articles |-> << >>, processed |-> << >>,
                       seen |-> seen_hashes], now)},
          r \in {process_articles(fn.articles, seen_hashes, now)} :
           /\ seen_hashes' = r.seen
           /\ accepted' = accepted \o st.processed
           /\ batch' = r.articles
           /\ processed' = st.processed
           /\ result' = r.processed
    /\ lastOp' = [name |-> "process_articles"]
    /\ runs' = runs + 1
    /\ fn' = [fn EXCEPT !.op = "process_articles"]
    /\ UNCHANGED <<pc, now, tzname, futures, all_articles, trending_topics, threads,
                   scraper>>

SpecBatch == BatchInit /\ [][ProcessBatch]_vars

(***************************************************************************)
(* SpecRun: one run of AICompetitorIntelligence.execute_intelligence_      *)
(* gathering.  The scrape_source tasks run on the threads of the pool; the *)
(* main thread collects them as they complete and then runs the passes.    *)
(***************************************************************************)
max_workers == 3

SourceNames == {"TechNews", "TechNews RSS", "AIWeekly", "News"}

ByUrl(url) == CHOOSE article \in RawArticles : article["url"] = url

\* what extract_articles finds at a source that answers
Found_at(source_name) ==
    CASE source_name = "TechNews"     -> << ByUrl("https://technews.example/gpt5") >>
      [] source_name = "TechNews RSS" -> << ByUrl("https://technews.example/feed/1") >>
      [] source_name = "AIWeekly"     -> << ByUrl("https://aiweekly.example/gpt5") >>
      [] source_name = "News"         -> << ByUrl("https://news.example/cloud"),
                                            ByUrl("https://news.example/notes") >>

\* scrape_source returns the articles found, or [] when the source fails
ScrapeResults(source_name) == { << >>, Found_at(source_name) }

\* mutant of Extend: the batch is replaced, not extended
ExtendReplaces(list, articles) == articles

\* all_articles.extend(articles)
Extend(list, articles) == list \o articles

\* mutant of NextPass: near-duplicates are removed before the date filter
NextPassDedupFirst(pass) ==
    CASE pass = "process_articles"     -> "deduplicate_articles"
      [] pass = "deduplicate_articles" -> "filter_by_date"
      [] pass = "filter_by_date"       -> "get_trending_topics"
      [] pass = "get_trending_topics"  -> "generate_all_reports"

\* the statement after a pass: lines 138 to 151 of main.py
NextPass(pass) ==
    CASE pass = "process_articles"     -> "filter_by_date"
      [] pass = "filter_by_date"       -> "deduplicate_articles"
      [] pass = "deduplicate_articles" -> "get_trending_topics"
      [] pass = "get_trending_topics"  -> "generate_all_reports"

Running == {s \in DOMAIN futures : futures[s].state = "running"}

RunInit ==
    /\ seen_hashes = {}
    /\ accepted = << >>
    /\ batch = << >>
    /\ processed = << >>
    /\ result = << >>
    /\ lastOp = [name |-> "__init__"]
    /\ runs = 0
    /\ pc = "scraping"
    /\ now = ClockStart
    /\ tzname = << "UTC", "UTC" >>
    /\ fn = NoCall
    /\ futures = [s \in SourceNames |-> [state |-> "pending", articles |-> << >>]]
    /\ all_articles = << >>
    /\ trending_topics = << >>
    /\ NoThreads
    /\ NewScraper

\* a thread of the pool takes a submitted task
WorkerStart(s) ==
    /\ futures[s].state = "pending"
    /\ Cardinality(Running) < max_workers
    /\ futures' = [futures EXCEPT ![s].state = "running"]
    /\ UNCHANGED <<seen_hashes, accepted, batch, processed, result, lastOp, runs,
                   pc, now, tzname, fn, all_articles, trending_topics, threads,
                   scraper>>

\* scrape_source returns on its thread
WorkerReturn(s, articles) ==
    /\ futures[s].state = "running"
    /\ futures' = [futures EXCEPT ![s] = [state |-> "finished", articles |-> articles]]
    /\ UNCHANGED <<seen_hashes, accepted, batch, processed, result, lastOp, runs,
                   pc, now, tzname, fn, all_articles, trending_topics, threads,
                   scraper>>

\* one iteration of the as_completed loop, on the main thread
Collect(s) ==
    /\ pc = "scraping"
    /\ futures[s].state = "finished"
    /\ futures' = [futures EXCEPT ![s].state = "merged"]
    /\ all_articles' = Extend(all_articles, futures[s].articles)
    /\ UNCHANGED <<seen_hashes, accepted, batch, processed, result, lastOp, runs,
                   pc, now, tzname, fn, trending_topics, threads, scraper>>

\* the loop and the with block end; an empty batch returns at once
EndScraping ==
    /\ pc = "scraping"
    /\ \A s \in DOMAIN futures : futures[s].state = "merged"
    /\ pc' = IF all_articles = << >> THEN "returned" ELSE "process_articles"
    /\ UNCHANGED <<seen_hashes, accepted, batch, processed, result, lastOp, runs,
                   now, tzname, fn, futures, all_articles, trending_topics, threads,
                   scraper>>

\* line 138; the records of all_articles are changed in place
RunProcessArticles ==
    /\ pc = "process_articles"
    /\ \E st \in {ProcessLoop(all_articles, 1,
                      [articles |-> << >>, processed |-> << >>,
                       seen |-> seen_hashes], now)},
          r \in {process_articles(all_articles, seen_hashes, now)} :
           /\ seen_hashes' = r.seen
           /\ accepted' = accepted \o st.processed
           /\ processed' = st.processed
           /\ result' = r.processed
           /\ all_articles' = r.articles
    /\ batch' = all_articles
    /\ lastOp' = [name |-> "process_articles"]
    /\ runs' = runs + 1
    /\ pc' = NextPass(pc)
    /\ UNCHANGED <<now, tzname, fn, futures, trending_topics, threads, scraper>>

\* line 139
RunFilterByDate ==
    /\ pc = "filter_by_date"
    /\ batch' = result
    /\ result' = filter_by_date(result, DefaultDaysBack, now, tzname)
    /\ lastOp' = [name |-> "filter_by_date", days_back |-> DefaultDaysBack]
    /\ pc' = NextPass(pc)
    /\ UNCHANGED <<seen_hashes, accepted, processed, runs, now, tzname, fn,
                   futures, all_articles, trending_topics, threads, scraper>>

\* line 140
RunDeduplicateArticles ==
    /\ pc = "deduplicate_articles"
    /\ batch' = result
    /\ result' = deduplicate_articles(result)
    /\ lastOp' = [name |-> "deduplicate_articles", after |-> lastOp.name]
    /\ pc' = NextPass(pc)
    /\ UNCHANGED <<seen_hashes, accepted, processed, runs, now, tzname, fn,
                   futures, all_articles, trending_topics, threads, scraper>>

\* line 143
RunGetTrendingTopics ==
    /\ pc = "get_trending_topics"
    /\ batch' = result
    /\ trending_topics' = get_trending_topics(result)
    /\ lastOp' = [name |-> "get_trending_topics"]
    /\ pc' = NextPass(pc)
    /\ UNCHANGED <<seen_hashes, accepted, processed, result, runs, now, tzname,
                   fn, futures, all_articles, threads, scraper>>

RunNext ==
    \/ \E s \in SourceNames : WorkerStart(s)
    \/ \E s \in SourceNames : \E articles \in ScrapeResults(s) : WorkerReturn(s, articles)
    \/ \E s \in SourceNames : Collect(s)
    \/ EndScraping
    \/ RunProcessArticles
    \/ RunFilterByDate
    \/ RunDeduplicateArticles
    \/ RunGetTrendingTopics

SpecRun == RunInit /\ [][RunNext]_vars

(***************************************************************************)
(* SpecThreads: two threads call process_articles on one instance with no  *)
(* lock.  A thread can be preempted between the membership test of         *)
(* _is_duplicate (line 40) and seen_hashes.add (line 53); what lies        *)
(* between touches only the thread's own article and list.                 *)
(***************************************************************************)
Threads == {"t1", "t2"}

\* the lists the threads pass
ThreadBatches ==
    { << ByUrl("https://technews.example/gpt5") >>,
      << ByUrl("https://technews.example/feed/1"),
         ByUrl("https://news.example/cloud") >>,
      << ByUrl("https://news.example/notes"),
         ByUrl("https://technews.example/gpt5") >> }

Returned_threads == {t \in DOMAIN threads : threads[t].pc = "returned"}

ThreadsInit ==
    /\ seen_hashes = {}
    /\ accepted = << >>
    /\ batch = << >>
    /\ processed = << >>
    /\ result = << >>
    /\ lastOp = [name |-> "__init__"]
    /\ runs = 0
    /\ pc = "idle"
    /\ now = ClockStart
    /\ tzname = << "UTC", "UTC" >>
    /\ fn = NoCall
    /\ NoRun
    /\ threads = [t \in Threads |-> [pc |-> "idle"]]
    /\ NewScraper

\* thread t enters process_articles; after is the set of calls that had
\* returned by then
ThreadCall(t, articles) ==
    /\ threads[t].pc = "idle"
    /\ threads' = [threads EXCEPT ![t] =
                      [pc |-> "for", articles |-> articles, i |-> 1,
                       processed |-> << >>, after |-> Returned_threads]]
    /\ UNCHANGED <<seen_hashes, accepted, batch, processed, result, lastOp, runs,
                   pc, now, tzname, fn, futures, all_articles, trending_topics,
                   scraper>>

\* lines 39-41: the next article and the membership test
ThreadCheck(t) ==
    /\ threads[t].pc = "for"
    /\ threads[t].i <= Len(threads[t].articles)
    /\ LET r == _is_duplicate(threads[t].articles[threads[t].i], seen_hashes)
       IN  threads' = [threads EXCEPT
                          ![t].articles[threads[t].i] = r.article,
                          ![t].i  = IF r.dup THEN @ + 1 ELSE @,
                          ![t].pc = IF r.dup THEN "for" ELSE "checked"]
    /\ UNCHANGED <<seen_hashes, accepted, batch, processed, result, lastOp, runs,
                   pc, now, tzname, fn, futures, all_articles, trending_topics,
                   scraper>>

\* lines 44-53: the score, the fields, the append and seen_hashes.add
ThreadAccept(t) ==
    /\ threads[t].pc = "checked"
    /\ LET article  == threads[t].articles[threads[t].i]
           score    == _calculate_relevance_score(article)
           enriched == Enrich(article, score, now)
       IN  IF Relevant(score)
           THEN /\ threads' = [threads EXCEPT
                                  ![t].articles[threads[t].i] = enriched,
                                  ![t].processed = Append(@, enriched),
                                  ![t].i = @ + 1,
                                  ![t].pc = "for"]
                /\ seen_hashes' = MarkSeen(seen_hashes, enriched)
                /\ accepted' = Append(accepted, enriched)
           ELSE /\ threads' = [threads EXCEPT ![t].i = @ + 1, ![t].pc = "for"]
                /\ UNCHANGED <<seen_hashes, accepted, scraper>>
    /\ UNCHANGED <<batch, processed, result, lastOp, runs, pc, now, tzname, fn,
                   futures, all_articles, trending_topics, scraper>>

\* lines 56-61: the sort and the return
ThreadReturn(t) ==
    /\ threads[t].pc = "for"
    /\ threads[t].i > Len(threads[t].articles)
    /\ threads' = [threads EXCEPT ![t].pc = "returned",
                                  ![t].processed = SortDesc(@)]
    /\ result' = SortDesc(threads[t].processed)
    /\ lastOp' = [name |-> "process_articles"]
    /\ runs' = runs + 1
    /\ UNCHANGED <<seen_hashes, accepted, batch, processed, pc, now, tzname, fn,
                   futures, all_articles, trending_topics, scraper>>

ThreadsNext ==
    \/ \E t \in Threads : \E articles \in ThreadBatches : ThreadCall(t, articles)
    \/ \E t \in Threads : ThreadCheck(t)
    \/ \E t \in Threads : ThreadAccept(t)
    \/ \E t \in Threads : ThreadReturn(t)

SpecThreads == ThreadsInit /\ [][ThreadsNext]_vars

(***************************************************************************)
(* SpecHashless: a new instance, and two calls of process_articles on      *)
(* lists of records that come without a hash                               *)
(***************************************************************************)
HashlessArticles ==
    { FeedArticle("Keras notes", "", "https://news.example/keras", "RSS",
                  "2024-01-09"),
      FeedArticle("Keras notes", "", "https://mirror.example/keras", "RSS",
                  "2024-01-03"),
      Put(FeedArticle("Keras notes", "", "https://old.example/keras", "RSS",
                      "2024-01-03"), "hash", ""),
      FeedArticle("Keras notes", "the paper", "https://news.example/paper",
                  "RSS", "2024-01-09") }

HashlessInit ==
    /\ Untouched
    /\ now = ClockStart
    /\ tzname = << "UTC", "UTC" >>
    /\ fn = NoCall

\* the whole call, on the instance as the calls before left it
CallOn(articles) ==
    \E st \in {ProcessLoop(articles, 1,
                   [articles |-> << >>, processed |-> << >>,
                    seen |-> seen_hashes], now)},
       r \in {process_articles(articles, seen_hashes, now)} :
        /\ pc = "idle"
        /\ seen_hashes' = r.seen
        /\ accepted' = accepted \o st.processed
        /\ batch' = r.articles
        /\ processed' = st.processed
        /\ result' = r.processed
        /\ lastOp' = [name |-> "process_articles"]
        /\ runs' = runs + 1
        /\ UNCHANGED <<pc, now, tzname, futures, all_articles, trending_topics,
                       threads, scraper>>

FirstCall(articles) ==
    /\ fn = NoCall
    /\ CallOn(articles)
    /\ fn' = [op |-> "process_articles", articles |-> articles]

SecondCall(articles) ==
    /\ fn.op = "process_articles"
    /\ CallOn(articles)
    /\ fn' = [op |-> "process_articles twice", articles |-> articles,
              before |-> batch]

HashlessNext ==
    \/ \E articles \in ListsUpTo(HashlessArticles, MaxBatch) : FirstCall(articles)
    \/ \E articles \in ListsUpTo(HashlessArticles, MaxBatch) : SecondCall(articles)

SpecHashless == HashlessInit /\ [][HashlessNext]_vars

(***************************************************************************)
(* SpecPartial: each method applied to a list that holds records with an   *)
(* empty or missing title and content                                      *)
(***************************************************************************)
PartialArticles ==
    { FeedArticle("", "", "https://news.example/blank", "RSS", ""),
      [url |-> "https://news.example/empty"],
      FeedArticle("", "", "https://news.example/old", "RSS", "2024-01-03"),
      FeedArticle("Keras notes", "the paper", "https://news.example/paper",
                  "RSS", "2024-01-09") }

PartialInit ==
    /\ Untouched
    /\ now = ClockStart
    /\ tzname = << "UTC", "UTC" >>
    /\ fn \in {[op |-> "none", articles |-> l] :
                  l \in ListsUpTo(PartialArticles, MaxBatch)}

PartialScore ==
    /\ fn.op = "none"
    /\ fn' = [op |-> "_calculate_relevance_score", articles |-> fn.articles,
              ret |-> [n \in DOMAIN fn.articles |->
                          _calculate_relevance_score(fn.articles[n])]]
    /\ UNCHANGED <<instance, now, tzname>>

PartialPriority ==
    /\ fn.op = "none"
    /\ fn' = [op |-> "_determine_priority", articles |-> fn.articles,
              ret |-> [n \in DOMAIN fn.articles |->
                          _determine_priority(fn.articles[n],
                              _calculate_relevance_score(fn.articles[n]))]]
    /\ UNCHANGED <<instance, now, tzname>>

PartialSummary ==
    /\ fn.op = "none"
    /\ fn' = [op |-> "_generate_summary", articles |-> fn.articles,
              ret |-> [n \in DOMAIN fn.articles |->
                          _generate_summary(Get(fn.articles[n], "content", ""))]]
    /\ UNCHANGED <<instance, now, tzname>>

PartialProcess ==
    /\ fn.op = "none"
    /\ CallOn(fn.articles)
    /\ fn' = [fn EXCEPT !.op = "process_articles"]

PartialFilter(days_back) ==
    /\ fn.op = "none"
    /\ fn' = [op |-> "filter_by_date", articles |-> fn.articles,
              days_back |-> days_back,
              ret |-> filter_by_date(fn.articles, days_back, now, tzname)]
    /\ UNCHANGED <<instance, now, tzname>>

PartialDedup ==
    /\ fn.op = "none"
    /\ fn' = [op |-> "deduplicate_articles", articles |-> fn.articles,
              ret |-> deduplicate_articles(fn.articles)]
    /\ UNCHANGED <<instance, now, tzname>>

PartialTrending ==
    /\ fn.op = "none"
    /\ fn' = [op |-> "get_trending_topics", articles |-> fn.articles,
              ret |-> get_trending_topics(fn.articles)]
    /\ UNCHANGED <<instance, now, tzname>>

PartialNext ==
    \/ PartialScore
    \/ PartialPriority
    \/ PartialSummary
    \/ PartialProcess
    \/ \E days_back \in DaysBackValues : PartialFilter(days_back)
    \/ PartialDedup
    \/ PartialTrending

SpecPartial == PartialInit /\ [][PartialNext]_vars

(***************************************************************************)
(* SpecSummary: _generate_summary applied to a content on its own          *)
(***************************************************************************)
\* pieces of article text: sentences of 18, 95, 105 and 201 characters once
\* their white space is collapsed, the last without a terminator, and a
\* piece of white space
ShortSentence ==
    "OpenAI ships GPT-5!  "

Sentence95 ==
    "Anthropic and Google DeepMind both announced new research ab"
          \o "out machine learning safety Tuesday?!\n"

Sentence105 ==
    "Investors   put more funding\ninto cloud platform startups w"
          \o "hile the enterprise software market is expanding. "

Sentence201 ==
    "The quarterly report lists every acquisition and partnership"
          \o " of the large technology companies and it goes on for a very"
          \o " long time without a single full stop so that no summary can"
          \o " hold it at all, okay"

Pieces == { ShortSentence, Sentence95, Sentence105, Sentence201, " \n" }

RECURSIVE Concat(_)
Concat(list) == IF list = << >> THEN "" ELSE Head(list) \o Concat(Tail(list))

SummaryInit ==
    /\ Untouched
    /\ now = ClockStart
    /\ tzname = << "UTC", "UTC" >>
    /\ fn \in {[op |-> "none", content |-> Concat(l)] :
                  l \in ListsUpTo(Pieces, MaxSentences)}

GenerateSummary ==
    /\ fn.op = "none"
    /\ fn' = [op |-> "_generate_summary", content |-> fn.content,
              ret |-> _generate_summary(fn.content)]
    /\ UNCHANGED <<instance, now, tzname>>

SpecSummary == SummaryInit /\ [][GenerateSummary]_vars

(***************************************************************************)
(* SpecAccept: process_articles on records of every kind of keyword match  *)
(***************************************************************************)
AcceptTitles ==
    { "OpenAI releases GPT-5 model today", "Weather forecast for Tuesday",
      "Software notes", "Cloud platform news", "Keras notes", "An Acquisition",
      "Machine" }

AcceptContents ==
    { "", "sunny skies expected", "learning about technology software startup" }

AcceptArticles ==
    { PageArticle(title, content, "https://news.example/item", "News",
                  "2024-01-09") :
          title \in AcceptTitles, content \in AcceptContents }

AcceptInit ==
    /\ Untouched
    /\ now = ClockStart
    /\ tzname = << "UTC", "UTC" >>
    /\ fn \in {[op |-> "none", articles |-> l] :
                  l \in ListsUpTo(AcceptArticles, MaxAccept)}

SpecAccept == AcceptInit /\ [][ProcessBatch]_vars

(***************************************************************************)
(* SpecTwice: process_articles called again with the batch of the call     *)
(* before, on the same instance                                            *)
(***************************************************************************)
TwiceArticles == RawArticles \cup HashlessArticles

\* the second call, with the list object of the first call, whose records
\* the first call has written into (articles = batch), or with records equal
\* to those the first call was given (articles = fn.articles)
CallAgain(articles) ==
    /\ fn.op = "process_articles"
    /\ CallOn(articles)
    /\ fn' = [op |-> "process_articles twice", articles |-> articles,
              before |-> batch, seen |-> seen_hashes, returned |-> result]

TwiceNext ==
    \/ \E articles \in ListsUpTo(TwiceArticles, MaxBatch) : FirstCall(articles)
    \/ \E articles \in (IF fn.op = "process_articles"
                         THEN {batch, fn.articles} ELSE {}) : CallAgain(articles)

SpecTwice == HashlessInit /\ [][TwiceNext]_vars

(***************************************************************************)
(* SpecFrame: one instance over several runs, each a call of               *)
(* process_articles followed by the passes over the list it returned       *)
(***************************************************************************)
\* a recent page, an old page whose title is close to it, and a later copy
\* of the old page under another url
FrameArticles ==
    { PageArticle("OpenAI releases GPT-5 model today",
                  "OpenAI announces major funding round.",
                  "https://technews.example/gpt5", "TechNews", "2024-01-09"),
      PageArticle("OpenAI releases GPT-5 model", "New NLP algorithm study",
                  "https://aiweekly.example/gpt5", "AIWeekly",
                  "2024-01-02T08:00:00"),
      PageArticle("OpenAI releases GPT-5 model", "New NLP algorithm study",
                  "https://mirror.example/gpt5", "Mirror", "2024-01-09") }

\* main.py line 143, on the list the passes before it left
TrendingOfResult ==
    /\ pc = "idle"
    /\ lastOp.name \in {"process_articles", "filter_by_date", "deduplicate_articles"}
    /\ trending_topics' = get_trending_topics(result)
    /\ lastOp' = [name |-> "get_trending_topics"]
    /\ UNCHANGED <<seen_hashes, accepted, batch, processed, result, runs, pc,
                   now, tzname, fn, futures, all_articles, threads, scraper>>

FrameNext ==
    \/ CallProcessArticles
    \/ \E article \in FrameArticles : ProcessArticle(article)
    \/ ReturnProcessed
    \/ \E days_back \in DaysBackValues : FilterByDate(days_back)
    \/ DeduplicateArticles
    \/ TrendingOfResult

SpecFrame == Init /\ [][FrameNext]_vars

(***************************************************************************)
(* SpecScrape: the scrape_source tasks of one gathering on the threads of  *)
(* the pool, all of them using the one WebScraper of the application.      *)
(* threads[name] is what the task of the source holds; limits is the       *)
(* sequence of the values of self.rate_limit its requests were throttled   *)
(* with.  Clock readings are not modelled: time_diff is any of TimeDiffs,  *)
(* and last_request_time is the set of the domains that have an entry.     *)
(***************************************************************************)
ScrapeSources ==
    { [name |-> "TechNews", url |-> "https://technews.example/news",
       rate_limit |-> 1],
      [name |-> "AIWeekly", url |-> "https://aiweekly.example/",
       rate_limit |-> 5] }

TimeDiffs == {0, 3}

\* urlparse(url).netloc
Netloc(url) ==
    IF SubSeq(url, 1, 8) = "https://"
    THEN SplitFirst(SubSeq(url, 9, Len(url)), "/")
    ELSE IF SubSeq(url, 1, 7) = "http://"
    THEN SplitFirst(SubSeq(url, 8, Len(url)), "/")
    ELSE ""

ScrapeInit ==
    /\ Untouched
    /\ now = ClockStart
    /\ tzname = << "UTC", "UTC" >>
    /\ fn = NoCall

\* executor.submit(self.scrape_source, source), for every source (118-122)
SubmitAll ==
    /\ threads = << >>
    /\ threads' = [name \in {source.name : source \in ScrapeSources} |->
                      [pc |-> "scrape_source",
                       source |-> CHOOSE source \in ScrapeSources : source.name = name,
                       requests |-> 0, limits |-> << >>]]
    /\ UNCHANGED <<seen_hashes, accepted, batch, processed, result, lastOp,
                   runs, pc, now, tzname, fn, futures, all_articles,
                   trending_topics, scraper>>

\* main.py line 85: self.scraper.rate_limit = rate_limit
SetRateLimit(name) ==
    /\ threads # << >>
    /\ threads[name].pc = "scrape_source"
    /\ scraper' = [scraper EXCEPT !.rate_limit = threads[name].source.rate_limit]
    /\ threads' = [threads EXCEPT ![name].pc = "_respect_rate_limit"]
    /\ UNCHANGED <<seen_hashes, accepted, batch, processed, result, lastOp,
                   runs, pc, now, tzname, fn, futures, all_articles,
                   trending_topics>>

\* _respect_rate_limit, lines 48-52 and 56: with no entry for the domain the
\* request is not throttled; with one, time_diff is compared with
\* self.rate_limit as it is at that moment
CompareRateLimit(name, time_diff) ==
    /\ threads # << >>
    /\ threads[name].pc = "_respect_rate_limit"
    /\ LET domain == Netloc(threads[name].source.url) IN
       IF domain \notin scraper.last_request_time
       THEN /\ scraper' = [scraper EXCEPT !.last_request_time = @ \cup {domain}]
            /\ threads' = [threads EXCEPT ![name].pc = "get"]
       ELSE IF time_diff < scraper.rate_limit
       THEN /\ threads' = [threads EXCEPT
                              ![name].pc = "sleep",
                              ![name].limits = Append(@, scraper.rate_limit)]
            /\ UNCHANGED scraper
       ELSE /\ threads' = [threads EXCEPT
                              ![name].pc = "get",
                              ![name].limits = Append(@, scraper.rate_limit)]
            /\ UNCHANGED scraper
    /\ UNCHANGED <<seen_hashes, accepted, batch, processed, result, lastOp,
                   runs, pc, now, tzname, fn, futures, all_articles,
                   trending_topics>>

\* lines 53-56: sleep_time is computed from self.rate_limit as it is now
SleepRateLimit(name) ==
    /\ threads # << >>
    /\ threads[name].pc = "sleep"
    /\ threads' = [threads EXCEPT
                      ![name].pc = "get",
                      ![name].limits = Append(@, scraper.rate_limit)]
    /\ UNCHANGED <<seen_hashes, accepted, batch, processed, result, lastOp,
                   runs, pc, now, tzname, fn, futures, all_articles,
                   trending_topics, scraper>>

\* self.session.get(url): the request is made; another one follows (the
\* pages of the articles, lines 135-138) or scrape_source returns
GetUrl(name, more) ==
    /\ threads # << >>
    /\ threads[name].pc = "get"
    /\ threads' = [threads EXCEPT
                      ![name].requests = @ + 1,
                      ![name].pc = IF more /\ threads[name].requests + 1 < MaxRequests
                                   THEN "_respect_rate_limit" ELSE "returned"]
    /\ UNCHANGED <<seen_hashes, accepted, batch, processed, result, lastOp,
                   runs, pc, now, tzname, fn, futures, all_articles,
                   trending_topics, scraper>>

ScrapeNext ==
    \/ SubmitAll
    \/ \E source \in ScrapeSources : SetRateLimit(source.name)
    \/ \E source \in ScrapeSources, time_diff \in TimeDiffs :
           CompareRateLimit(source.name, time_diff)
    \/ \E source \in ScrapeSources : SleepRateLimit(source.name)
    \/ \E source \in ScrapeSources, more \in BOOLEAN : GetUrl(source.name, more)

SpecScrape == ScrapeInit /\ [][ScrapeNext]_vars

(***************************************************************************)
(* SpecRequest: one call of WebScraper._make_request.  fn holds the locals *)
(* of the call: attempt is the loop variable, outcomes what each           *)
(* session.get so far returned or raised.                                  *)
(***************************************************************************)
RequestUrls == { "https://technews.example/news", "https://aiweekly.example/" }

\* what session.get(url, timeout=30) does: a response with a status code, or
\* a requests.RequestException (the timeout included)
StatusCodes == {200, 429, 404, 500}

Response(status_code, attempt) ==
    [type |-> "Response", status_code |-> status_code, attempt |-> attempt]

RequestException(attempt) == [type |-> "RequestException", attempt |-> attempt]

None == [type |-> "NoneType"]

RECURSIVE Pow2(_)
Pow2(n) == IF n = 0 THEN 1 ELSE 2 * Pow2(n - 1)

\* mutant of AfterGet: a response with status 200 is handled as any other
AfterGetIgnoresStatus(call, outcome) ==
    LET got == [call EXCEPT !.outcomes = Append(@, outcome)] IN
    IF outcome.type = "Response"
    THEN IF outcome.status_code = 429
         THEN [got EXCEPT !.pc = "sleep", !.wait_time = Pow2(call.attempt)]
         ELSE [got EXCEPT !.attempt = @ + 1]
    ELSE IF call.attempt < call.max_retries - 1
         THEN [got EXCEPT !.pc = "sleep", !.wait_time = Pow2(call.attempt)]
         ELSE [got EXCEPT !.attempt = @ + 1]

\* lines 71-84: the locals of the call after session.get gave outcome
AfterGet(call, outcome) ==
    LET got == [call EXCEPT !.outcomes = Append(@, outcome)] IN
    IF outcome.type = "Response"
    THEN IF outcome.status_code = 200
         THEN [got EXCEPT !.pc = "returned", !.ret = outcome]
         ELSE IF outcome.status_code = 429
         THEN [got EXCEPT !.pc = "sleep", !.wait_time = Pow2(call.attempt)]
         ELSE [got EXCEPT !.attempt = @ + 1]
    ELSE IF call.attempt < call.max_retries - 1
         THEN [got EXCEPT !.pc = "sleep", !.wait_time = Pow2(call.attempt)]
         ELSE [got EXCEPT !.attempt = @ + 1]

RequestInit ==
    /\ Untouched
    /\ now = ClockStart
    /\ tzname = << "UTC", "UTC" >>
    /\ fn = NoCall

CallMakeRequest(url, max_retries) ==
    /\ fn = NoCall
    /\ fn' = [op |-> "_make_request", url |-> url, max_retries |-> max_retries,
              pc |-> "for", attempt |-> 0, outcomes |-> << >>, wait_time |-> 0,
              ret |-> None]
    /\ UNCHANGED <<instance, now, tzname>>

\* one pass of the loop body up to the end of the status test: the rate
\* limit is respected, the request is made
GetAttempt(outcome) ==
    /\ fn.op = "_make_request"
    /\ fn.pc = "for"
    /\ fn.attempt < fn.max_retries
    /\ outcome.attempt = fn.attempt
    /\ scraper' = [scraper EXCEPT !.last_request_time = @ \cup {Netloc(fn.url)}]
    /\ fn' = AfterGet(fn, outcome)
    /\ UNCHANGED <<seen_hashes, accepted, batch, processed, result, lastOp,
                   runs, pc, now, tzname, futures, all_articles,
                   trending_topics, threads>>

\* time.sleep(wait_time) of line 76 or 84 ends
WakeUp ==
    /\ fn.op = "_make_request"
    /\ fn.pc = "sleep"
    /\ fn' = [fn EXCEPT !.pc = "for", !.attempt = @ + 1, !.wait_time = 0]
    /\ UNCHANGED <<instance, now, tzname>>

\* range(max_retries) is exhausted: line 86
ReturnNone ==
    /\ fn.op = "_make_request"
    /\ fn.pc = "for"
    /\ fn.attempt >= fn.max_retries
    /\ fn' = [fn EXCEPT !.pc = "returned", !.ret = None]
    /\ UNCHANGED <<instance, now, tzname>>

RequestNext ==
    \/ \E url \in RequestUrls, max_retries \in 0..MaxRetries :
           CallMakeRequest(url, max_retries)
    \/ \E status_code \in StatusCodes, attempt \in 0..MaxRetries :
           GetAttempt(Response(status_code, attempt))
    \/ \E attempt \in 0..MaxRetries : GetAttempt(RequestException(attempt))
    \/ WakeUp
    \/ ReturnNone

SpecRequest == RequestInit /\ [][RequestNext]_vars

\* the thread of the call keeps running: a sleep ends, and session.get
\* returns or raises within its timeout
SpecRequestLive == SpecRequest /\ WF_vars(RequestNext)

(***************************************************************************)
(* Claims about one instance used from a single thread (Spec)              *)
(***************************************************************************)
EnrichedFields == {"relevance_score", "priority", "summary", "processed_date"}
PriorityTiers  == {"critical", "high", "medium", "low"}

Last(seq) == seq[Len(seq)]

\* C1: every record of a list returned by process_articles, and of what
\* filter_by_date and deduplicate_articles leave of it, has relevance_score >= 2
\* and carries the four enriched fields, priority being one of the four tiers.
C1_ReturnedRecordsRelevantAndEnriched ==
    \A i \in DOMAIN result :
        /\ EnrichedFields \subseteq DOMAIN result[i]
        /\ result[i]["relevance_score"] >= 2
        /\ result[i]["priority"] \in PriorityTiers

\* a second process_articles call has returned, the date filter and then the
\* near-duplicate pass have run, and a record of score exactly 2 is left
C1_Witness ==
    /\ runs >= 2
    /\ lastOp.name = "deduplicate_articles"
    /\ lastOp.after = "filter_by_date"
    /\ \E i \in DOMAIN result : result[i]["relevance_score"] = 2

\* C2: no two records ever accepted by the instance have the same hash.
C2_AcceptedHashesDistinct ==
    \A i, j \in DOMAIN accepted :
        i # j => accepted[i]["hash"] # accepted[j]["hash"]

\* one batch held two records of the same hash (the second had none of its
\* own): the first was accepted, the second dropped; and a later call dropped
\* a record whose hash an earlier call had recorded
C2_Witness ==
    /\ pc = "process_articles"
    /\ Len(batch) = 2
    /\ batch[1]["hash"] = batch[2]["hash"]
    /\ "relevance_score" \in DOMAIN batch[1]
    /\ "relevance_score" \notin DOMAIN batch[2]
    /\ batch[2]["source"] # batch[1]["source"] \/ batch[2]["url"] # batch[1]["url"]
    /\ runs >= 1

AcceptedHashes == {accepted[i]["hash"] : i \in DOMAIN accepted}

\* C3: the seen-hash set is exactly the set of hashes of the accepted records,
\* each inserted once and only for a record of score >= 2; a step that changes
\* the set inserts the hash, not in the set before, of the one record it
\* accepts; a step that rejects a record for its score leaves the set unchanged.
C3_SeenHashesAreAcceptedHashes ==
    /\ [](/\ seen_hashes = AcceptedHashes
          /\ Cardinality(seen_hashes) = Len(accepted)
          /\ \A i \in DOMAIN accepted : accepted[i]["relevance_score"] >= 2)
    /\ [][ /\ seen_hashes' # seen_hashes =>
                /\ Len(accepted') = Len(accepted) + 1
                /\ Last(accepted')["hash"] \notin seen_hashes
                /\ seen_hashes' = seen_hashes \cup {Last(accepted')["hash"]}
                /\ _calculate_relevance_score(Last(accepted')) >= 2
           /\ ( /\ pc = "process_articles"
                /\ Len(batch') = Len(batch) + 1
                /\ _calculate_relevance_score(Last(batch')) < 2 ) =>
                seen_hashes' = seen_hashes ]_vars

\* a record rejected for its score was submitted again and scored again: its
\* hash is not in the set, which holds the hash of an accepted record
C3_Witness ==
    /\ pc = "process_articles"
    /\ Len(batch) = 2
    /\ batch[1] = batch[2]
    /\ batch[1]["hash"] \notin seen_hashes
    /\ "relevance_score" \notin DOMAIN batch[1]
    /\ seen_hashes # {}

(***************************************************************************)
(* Claims about _determine_priority and _calculate_relevance_score        *)
(***************************************************************************)
HasCriticalTerm(article) ==
    \E term \in Range(critical_terms) : Occurs(term, combined_text(article))

HasHighPriorityTerm(article) ==
    \E term \in Range(high_priority_terms) : Occurs(term, combined_text(article))

\* C4: _determine_priority tries its tests in a fixed order.  A score of 10
\* or more gives "critical"; otherwise a critical phrase in the combined
\* text gives "critical" whatever the score; otherwise a score of 6 or more,
\* or a high-priority phrase, gives "high"; otherwise a score of 4 or more
\* gives "medium"; everything else is "low".
C4_PriorityPrecedence ==
    fn.op = "_determine_priority" =>
        LET score == fn.relevance_score
            crit  == HasCriticalTerm(fn.article)
            high  == HasHighPriorityTerm(fn.article)
        IN  /\ score >= 10 => fn.ret = "critical"
            /\ (score < 10 /\ crit) => fn.ret = "critical"
            /\ (score < 10 /\ ~crit /\ (score >= 6 \/ high)) => fn.ret = "high"
            /\ (score < 6 /\ ~crit /\ ~high /\ score >= 4) => fn.ret = "medium"
            /\ (score < 4 /\ ~crit /\ ~high) => fn.ret = "low"

\* a low score with a critical phrase is critical
C4_Witness ==
    /\ fn.op = "_determine_priority"
    /\ fn.relevance_score = 3
    /\ HasCriticalTerm(fn.article)
    /\ HasHighPriorityTerm(fn.article)
    /\ fn.ret = "critical"

Found(keywords, text) == {k \in Range(keywords) : Occurs(k, text)}

\* the score written as a sum over the sets of keywords found
ScoreClosedForm(title, content) ==
    LET t == lower(title)
        c == t \o " " \o lower(content)
    IN  3 * Cardinality(Found(high_priority, c))
        + 2 * Cardinality(Found(high_priority, c) \cap Found(high_priority, t))
        + 2 * Cardinality(Found(medium_priority, c))
        + Cardinality(Found(medium_priority, c) \cap Found(medium_priority, t))
        + Min(Cardinality(Found(tech_context, c)), 3)

\* C5: the relevance score is 3 for each high-priority keyword found in the
\* combined text plus 2 more when it is also in the title, 2 for each
\* medium-priority keyword found plus 1 more when it is also in the title,
\* and min(number of tech-context keywords found, 3); it is a function of
\* the title and the content alone, and the call changes nothing else.
C5_ScoreClosedForm ==
    fn.op = "_calculate_relevance_score" =>
        /\ fn.ret = ScoreClosedForm(Get(fn.article, "title", ""),
                                    Get(fn.article, "content", ""))
        /\ Untouched

\* more than three tech-context keywords, and a medium keyword in the title
C5_Witness ==
    /\ fn.op = "_calculate_relevance_score"
    /\ LET t == lower(Get(fn.article, "title", ""))
           c == combined_text(fn.article)
       IN  /\ Cardinality(Found(tech_context, c)) > 3
           /\ Found(medium_priority, t) # {}
           /\ fn.ret > 3

(***************************************************************************)
(* Claims about deduplicate_articles                                       *)
(***************************************************************************)
TitleWords(article) == WordSet(lower(Get(article, "title", "")))

\* the ratio of shared words to the words of the candidate's title is > 0.8
RatioAbove80(candidate, retained) ==
    10 * Cardinality(TitleWords(candidate) \cap TitleWords(retained))
        > 8 * Max(Cardinality(TitleWords(candidate)), 1)

RECURSIVE KeptFrom(_, _, _)
KeptFrom(articles, keep, i) ==
    IF i > Len(articles) THEN << >>
    ELSE (IF keep[i] THEN << articles[i] >> ELSE << >>)
         \o KeptFrom(articles, keep, i + 1)

C7_DedupIdempotent ==
    fn.op = "deduplicate_articles twice" => fn.ret2 = fn.ret

\* the first pass dropped something and kept two titles that share words
C7_Witness ==
    /\ fn.op = "deduplicate_articles twice"
    /\ Len(fn.ret) < Len(fn.articles)
    /\ Len(fn.ret) = 2
    /\ TitleWords(fn.ret[1]) \cap TitleWords(fn.ret[2]) # {}
    /\ fn.ret2 = fn.ret

(***************************************************************************)
(* Claims about filter_by_date                                             *)
(***************************************************************************)
Count(article, articles) ==
    Cardinality({i \in DOMAIN articles : articles[i] = article})

\* some format of the list parses what filter_by_date hands to strptime
ParsedByFilter(article, tz) ==
    \E k \in DOMAIN date_formats :
        ParseAttempt(Get(article, "date", ""), date_formats[k], tz) # NoMatch

\* the date a well-formed string denotes: the whole string read in the first
\* of the three formats that matches it
RECURSIVE DenotedFrom(_, _, _)
DenotedFrom(date_str, k, tz) ==
    IF k > Len(date_formats) THEN NoMatch
    ELSE IF strptime(date_str, date_formats[k], tz) # NoMatch
         THEN strptime(date_str, date_formats[k], tz)
         ELSE DenotedFrom(date_str, k + 1, tz)

Denoted(article, tz) == DenotedFrom(Get(article, "date", ""), 1, tz)

C9_BoundaryRecordRetained ==
    fn.op = "filter_by_date" =>
        \A i \in DOMAIN fn.articles :
            LET article == fn.articles[i]
                date    == Denoted(article, tzname)
                cutoff  == CutoffDate(now, fn.days_back)
            IN  (ParsedByFilter(article, tzname) /\ date # NoMatch) =>
                    /\ Instant(date) = cutoff
                           => Count(article, fn.ret) > 0
                    /\ Instant(date) = MinusDays(cutoff, 1)
                           => Count(article, fn.ret) = 0

\* C10: each of the three formats is parsed, the RFC-822 form of feeds
\* included, so a well-formed record older than the cutoff is dropped.
C10_WellFormedOldRecordDropped ==
    fn.op = "filter_by_date" =>
        \A i \in DOMAIN fn.articles :
            LET article == fn.articles[i]
                date    == Denoted(article, tzname)
            IN  (date # NoMatch
                 /\ ~InstantGe(Instant(date), CutoffDate(now, fn.days_back)))
                    => Count(article, fn.ret) = 0

(***************************************************************************)
(* Claims about get_trending_topics                                        *)
(***************************************************************************)
AllKeywords == high_priority \o medium_priority \o tech_context

\* the number of records whose combined text contains keyword
Mentions(keyword, articles) ==
    Cardinality({i \in DOMAIN articles :
                    Occurs(keyword, combined_text(articles[i]))})

\* C11: get_trending_topics returns at most 10 entries, one per keyword, in
\* order of non-increasing count; a count is the number of records whose
\* combined text contains the keyword, so it lies between 1 and the number
\* of records; no keyword left out has a count above a returned one.
C11_TopTenByCount ==
    fn.op = "get_trending_topics" =>
        LET ret == fn.ret IN
        /\ Len(ret) <= 10
        /\ \A m, n \in DOMAIN ret : m < n =>
               /\ ret[m][1] # ret[n][1]
               /\ ret[m][2] >= ret[n][2]
        /\ \A n \in DOMAIN ret :
               /\ ret[n][1] \in Range(AllKeywords)
               /\ ret[n][2] = Mentions(ret[n][1], fn.articles)
               /\ 1 <= ret[n][2]
               /\ ret[n][2] <= Len(fn.articles)
        /\ \A keyword \in Range(AllKeywords) :
               (\A n \in DOMAIN ret : ret[n][1] # keyword) =>
                   \A n \in DOMAIN ret :
                       Mentions(keyword, fn.articles) <= ret[n][2]

\* more than ten keywords are mentioned, some of them twice, and a mentioned
\* keyword is left out
C11_Witness ==
    /\ fn.op = "get_trending_topics"
    /\ Len(fn.ret) = 10
    /\ fn.ret[1][2] = 2
    /\ fn.ret[10][2] = 1
    /\ \E keyword \in Range(AllKeywords) :
           /\ Mentions(keyword, fn.articles) = 1
           /\ \A n \in DOMAIN fn.ret : fn.ret[n][1] # keyword

\* position of keyword in the enumeration of the tier lists
TierIndex(keyword) ==
    CHOOSE k \in DOMAIN AllKeywords : AllKeywords[k] = keyword

\* C12: keywords with equal counts are returned, and chosen for the ten, in
\* the order in which the tier lists enumerate them, whatever the order of
\* the records.
C12_TiesInTierOrder ==
    fn.op = "get_trending_topics" =>
        /\ \A m, n \in DOMAIN fn.ret :
               (m < n /\ fn.ret[m][2] = fn.ret[n][2])
                   => TierIndex(fn.ret[m][1]) < TierIndex(fn.ret[n][1])
        /\ \A keyword \in Range(AllKeywords) :
               (\A n \in DOMAIN fn.ret : fn.ret[n][1] # keyword) =>
                   \A n \in DOMAIN fn.ret :
                       Mentions(keyword, fn.articles) = fn.ret[n][2]
                           => TierIndex(fn.ret[n][1]) < TierIndex(keyword)

(***************************************************************************)
(* Claims about one call of process_articles                               *)
(***************************************************************************)
\* position of record in list
PositionIn(record, list) == CHOOSE n \in DOMAIN list : list[n] = record

SameKey(x, y) ==
    /\ x["relevance_score"] = y["relevance_score"]
    /\ Get(x, "date", "") = Get(y, "date", "")

\* C13: the list process_articles returns holds the accepted records by
\* non-increasing relevance_score, records of equal score by non-increasing
\* date compared as text, and records equal on both in the order in which
\* they were accepted.
C13_ReturnedSortedDescending ==
    lastOp.name = "process_articles" =>
        /\ Len(result) = Len(processed)
        /\ Range(result) = Range(processed)
        /\ \A m, n \in DOMAIN result : m < n =>
               \/ result[m]["relevance_score"] > result[n]["relevance_score"]
               \/ /\ result[m]["relevance_score"] = result[n]["relevance_score"]
                  /\ StrLess(Get(result[n], "date", ""), Get(result[m], "date", ""))
               \/ /\ SameKey(result[m], result[n])
                  /\ PositionIn(result[m], processed) < PositionIn(result[n], processed)

\* of two accepted records of equal score, the one accepted second is
\* returned first: its date is greater as text although earlier in time
C13_Witness ==
    /\ lastOp.name = "process_articles"
    /\ Len(result) = 2
    /\ result[1]["relevance_score"] = result[2]["relevance_score"]
    /\ result[1]["date"] = "Mon, 01 Jan 2024 10:00:00 GMT"
    /\ result[2]["date"] = "2024-01-09"
    /\ result = << processed[2], processed[1] >>

\* the hash process_articles works with
HashOf(article) ==
    IF Get(article, "hash", "") # "" THEN article["hash"]
    ELSE Md5Hex(Get(article, "title", "") \o Get(article, "content", ""))

ScoreOf(article) ==
    ScoreClosedForm(Get(article, "title", ""), Get(article, "content", ""))

\* record n of the list is discarded by a call that starts with seen: its
\* score is below 2 or its hash is that of a record the instance has accepted
Discarded(articles, n, seen) ==
    \/ ScoreOf(articles[n]) < 2
    \/ HashOf(articles[n]) \in
           seen \cup {HashOf(articles[m]) : m \in {k \in 1..(n - 1) :
                                                   ScoreOf(articles[k]) >= 2}}

\* C18: process_articles only adds fields to the caller's records.  Title,
\* content, url, source, date and a non-empty hash stay as they were; the
\* only fields added are the hash and the four enriched fields; a record
\* that is discarded gets none of the enriched fields and is in no returned
\* list.
C18_RecordsOnlyGainFields ==
    lastOp.name = "process_articles" =>
        /\ Len(batch) = Len(fn.articles)
        /\ \A n \in DOMAIN fn.articles :
               LET before == fn.articles[n]
                   after  == batch[n]
               IN  /\ DOMAIN before \subseteq DOMAIN after
                   /\ \A key \in DOMAIN before :
                          (key = "hash" /\ before[key] = "") \/ after[key] = before[key]
                   /\ (DOMAIN after) \ (DOMAIN before) \subseteq EnrichedFields \cup {"hash"}
                   /\ Discarded(fn.articles, n, {}) =>
                          /\ DOMAIN after \cap EnrichedFields = {}
                          /\ \A m \in DOMAIN result : result[m] # after

\* a page is discarded as the duplicate of an accepted page and is left as
\* it was, while the accepted page gained the four fields
C18_Witness ==
    /\ lastOp.name = "process_articles"
    /\ Len(fn.articles) = 2
    /\ Len(result) = 1
    /\ HashOf(fn.articles[2]) = HashOf(fn.articles[1])
    /\ fn.articles[2]["url"] # fn.articles[1]["url"]
    /\ Get(fn.articles[2], "hash", "") # ""
    /\ batch[2] = fn.articles[2]
    /\ (DOMAIN batch[1]) \ (DOMAIN fn.articles[1]) = EnrichedFields

(***************************************************************************)
(* Claims about execute_intelligence_gathering                             *)
(***************************************************************************)
PassOrder ==
    { << "__init__", "process_articles" >>,
      << "process_articles", "filter_by_date" >>,
      << "filter_by_date", "deduplicate_articles" >>,
      << "deduplicate_articles", "get_trending_topics" >> }

\* C14: a run makes the passes in the order process_articles,
\* filter_by_date, deduplicate_articles, get_trending_topics.  Each pass is
\* given the list the pass before it returned, so near-duplicates are looked
\* for only among the records the date filter kept, and the topics are
\* those of the filtered and deduplicated list.
C14_PassesInOrder ==
    /\ [][lastOp' # lastOp =>
              /\ << lastOp.name, lastOp'.name >> \in PassOrder
              /\ lastOp'.name = "process_articles" => batch' = all_articles
              /\ lastOp'.name # "process_articles" => batch' = result]_vars
    /\ [](pc = "generate_all_reports" =>
              /\ result = deduplicate_articles(
                              filter_by_date(SortDesc(processed), DefaultDaysBack,
                                             now, tzname))
              /\ trending_topics = get_trending_topics(result))

\* a stale record that sorts first and a fresh near-duplicate of it: the
\* stale one is gone and the fresh one is in the final list
C14_Witness ==
    /\ pc = "generate_all_reports"
    /\ trending_topics # << >>
    /\ \E stale \in Range(processed) : \E fresh \in Range(result) :
           /\ stale \notin Range(result)
           /\ KeyLess(fresh, stale)
           /\ RatioAbove80(fresh, stale)

\* the records the workers returned that equal record
Returned(record) ==
    {<< s, n >> \in SourceNames \X (1..2) :
        n \in DOMAIN futures[s].articles /\ futures[s].articles[n] = record}

\* C16: process_articles is called at most once in a run, and only when
\* every scrape_source task has finished and been collected; the batch it
\* is given holds every record the workers returned exactly once, whatever
\* the order in which they completed; the batch grows only in the loop of
\* the main thread, by the articles of one completed task at a time.
C16_BatchHoldsEveryWorkerResultOnce ==
    /\ [](/\ runs <= 1
          /\ pc # "scraping" =>
                 \A s \in SourceNames : futures[s].state = "merged"
          /\ lastOp.name = "process_articles" =>
                 \A record \in RawArticles :
                     Count(record, batch) = Cardinality(Returned(record)))
    /\ [][(pc = "scraping" /\ all_articles' # all_articles) =>
              \E s \in SourceNames :
                  /\ futures[s].state = "finished"
                  /\ futures' = [futures EXCEPT ![s].state = "merged"]
                  /\ all_articles' = all_articles \o futures[s].articles]_vars

\* three workers returned articles and were collected in another order than
\* they were submitted in, one source failed, and the pass has been called
C16_Witness ==
    /\ lastOp.name = "process_articles"
    /\ futures["TechNews RSS"].articles = << >>
    /\ batch = Found_at("News") \o Found_at("AIWeekly") \o Found_at("TechNews")

(***************************************************************************)
(* Claims about threads sharing one instance                               *)
(***************************************************************************)
\* the threads that have entered process_articles
Called == {t \in Threads : threads[t].pc # "idle"}

Overlapping(t, u) ==
    /\ t \notin threads[u].after
    /\ u \notin threads[t].after

\* C15: with two threads in process_articles on one instance, two records
\* with the same hash can both be accepted.  It takes two calls that overlap
\* in time: one thread never accepts a hash twice, and a call that starts
\* after another has returned accepts none of the hashes that one accepted.
C15_SameHashAcceptedOnlyByOverlappingCalls ==
    /\ seen_hashes = {accepted[n]["hash"] : n \in DOMAIN accepted}
    /\ \A t \in Called :
           \A m, n \in DOMAIN threads[t].processed :
               m # n => threads[t].processed[m]["hash"] # threads[t].processed[n]["hash"]
    /\ \A t, u \in Called :
           (t # u /\ \E x \in Range(threads[t].processed) :
                        \E y \in Range(threads[u].processed) : x["hash"] = y["hash"])
               => Overlapping(t, u)

\* both threads have returned and each accepted a record with the same hash
C15_Witness ==
    /\ \A t \in Threads : threads[t].pc = "returned"
    /\ \E x \in Range(threads["t1"].processed) :
           \E y \in Range(threads["t2"].processed) : x["hash"] = y["hash"]
    /\ \E m, n \in DOMAIN accepted :
           m < n /\ accepted[m]["hash"] = accepted[n]["hash"]

(***************************************************************************)
(* Claims about records that come without a hash                           *)
(***************************************************************************)
SameText(x, y) ==
    /\ Get(x, "title", "") = Get(y, "title", "")
    /\ Get(x, "content", "") = Get(y, "content", "")

\* the records the calls made so far were given, as the calls left them
Submitted ==
    Range(batch) \cup (IF fn.op = "process_articles twice" THEN Range(fn.before) ELSE {})

\* C17: records that come without a hash, or with an empty one, leave the
\* call with a hash, and two of them with the same title and content leave
\* with the same hash; so the instance accepts at most one of them, in one
\* batch or over several calls.
C17_HashlessTwinsAcceptedOnce ==
    /\ \A x \in Submitted : Get(x, "hash", "") # ""
    /\ \A x, y \in Submitted : SameText(x, y) => x["hash"] = y["hash"]
    /\ \A m, n \in DOMAIN accepted :
           (m # n) => ~SameText(accepted[m], accepted[n])

\* the first call accepted a record; the second was given a twin of it
\* without a hash and one with an empty hash, and accepted neither
C17_Witness ==
    /\ fn.op = "process_articles twice"
    /\ Len(fn.before) = 1
    /\ Len(accepted) = 1
    /\ Len(fn.articles) = 2
    /\ "hash" \notin DOMAIN fn.articles[1]
    /\ Get(fn.articles[2], "hash", "absent") = ""
    /\ \A n \in DOMAIN batch :
           /\ SameText(batch[n], accepted[1])
           /\ batch[n]["url"] # accepted[1]["url"]
           /\ batch[n]["hash"] = accepted[1]["hash"]
    /\ result = << >>

(***************************************************************************)
(* Claims about records with an empty or missing title and content         *)
(***************************************************************************)
IsBlank(article) ==
    /\ Get(article, "title", "") = ""
    /\ Get(article, "content", "") = ""

Blanks(articles) == {n \in DOMAIN articles : IsBlank(articles[n])}

\* list is made of elements of articles, in their order
RECURSIVE IsSubsequence(_, _)
IsSubsequence(list, articles) ==
    IF list = << >> THEN TRUE
    ELSE IF articles = << >> THEN FALSE
    ELSE IF Head(list) = Head(articles)
         THEN IsSubsequence(Tail(list), Tail(articles))
         ELSE IsSubsequence(list, Tail(articles))

\* C19: a record whose title and content are empty or missing makes no
\* method fail.  Its score is 0, its priority low, its summary empty, and
\* process_articles drops it; filter_by_date, deduplicate_articles and
\* get_trending_topics return their result for a list that holds it:
\* the filter a sublist that keeps it unless its date is read and old,
\* the deduplication a sublist that keeps it, the topics those of the rest.
C19_BlankRecordsHandled ==
    /\ fn.op = "_calculate_relevance_score" =>
           \A n \in Blanks(fn.articles) : fn.ret[n] = 0
    /\ fn.op = "_determine_priority" =>
           \A n \in Blanks(fn.articles) : fn.ret[n] = "low"
    /\ fn.op = "_generate_summary" =>
           \A n \in Blanks(fn.articles) : fn.ret[n] = ""
    /\ fn.op = "process_articles" =>
           /\ Len(batch) = Len(fn.articles)
           /\ \A n \in Blanks(fn.articles) :
                  /\ DOMAIN batch[n] \cap EnrichedFields = {}
                  /\ batch[n] \notin Range(result)
           /\ \A n \in DOMAIN result : ~IsBlank(result[n])
    /\ fn.op = "filter_by_date" =>
           /\ IsSubsequence(fn.ret, fn.articles)
           /\ \A n \in Blanks(fn.articles) :
                  ~ParsedByFilter(fn.articles[n], tzname)
                      => Count(fn.articles[n], fn.ret) = Count(fn.articles[n], fn.articles)
    /\ fn.op = "deduplicate_articles" =>
           /\ IsSubsequence(fn.ret, fn.articles)
           /\ \A n \in Blanks(fn.articles) :
                  Count(fn.articles[n], fn.ret) = Count(fn.articles[n], fn.articles)
    /\ fn.op = "get_trending_topics" =>
           fn.ret = get_trending_topics(SelectSeq(fn.articles, LAMBDA a : ~IsBlank(a)))

\* process_articles was given a record with no title and no content next to
\* one it accepts
C19_Witness ==
    /\ fn.op = "process_articles"
    /\ Len(fn.articles) = 2
    /\ "title" \notin DOMAIN fn.articles[1]
    /\ "content" \notin DOMAIN fn.articles[1]
    /\ Len(result) = 1
    /\ result[1] = batch[2]
    /\ DOMAIN batch[1] = {"url", "hash"}

(***************************************************************************)
(* Claims about _generate_summary                                          *)
(***************************************************************************)
\* the sentences of a content: the non-blank pieces between runs of . ! ?
\* of the content with its white space collapsed, each stripped
SentencesOf(content) ==
    LET pieces == SplitSentences(strip(CollapseSpaces(content)))
    IN  SelectSeq([n \in DOMAIN pieces |-> strip(pieces[n])], LAMBDA x : x # "")

\* the first k sentences, each followed by a full stop and a space
RECURSIVE Joined(_, _)
Joined(sentences, k) ==
    IF k = 0 THEN "" ELSE Joined(sentences, k - 1) \o sentences[k] \o ". "

RECURSIVE TextLength(_, _)
TextLength(sentences, k) ==
    IF k = 0 THEN 0 ELSE TextLength(sentences, k - 1) + Len(sentences[k])

\* C20: the summary of a content is made of its first k sentences in their
\* order, for a k of at most 3 whose sentence texts have at most 200
\* characters together; the summary of the empty content is empty.
C20_SummaryWithinThreeSentences ==
    fn.op = "_generate_summary" =>
        /\ \E k \in 0..Min(3, Len(SentencesOf(fn.content))) :
               /\ fn.ret = strip(Joined(SentencesOf(fn.content), k))
               /\ TextLength(SentencesOf(fn.content), k) <= 200
        /\ fn.content = "" => fn.ret = ""

\* a content of four sentences was summarised by its first two, of 200
\* characters together
C20_Witness ==
    /\ fn.op = "_generate_summary"
    /\ Len(SentencesOf(fn.content)) = 4
    /\ fn.ret = strip(Joined(SentencesOf(fn.content), 2))
    /\ TextLength(SentencesOf(fn.content), 2) = 200

(***************************************************************************)
(* Claims about what process_articles accepts                              *)
(***************************************************************************)
\* how many keywords of the list are found in the record's title and content
MatchCount(keywords, article) ==
    Cardinality({i \in 1..Len(keywords) :
                    Contains(keywords[i], combined_text(article))})

KeywordRule(article) ==
    \/ MatchCount(high_priority, article) >= 1
    \/ MatchCount(medium_priority, article) >= 1
    \/ MatchCount(tech_context, article) >= 2

\* record n of the list handed over is in the list the call leaves as
\* accepted: the call has written its score into it
AcceptedAt(n) == "relevance_score" \in DOMAIN batch[n]

\* no record before n that the call accepted has the hash of record n (the
\* instance had seen no hash before the call)
UnseenAt(n) ==
    \A m \in 1..(n - 1) : AcceptedAt(m) => HashOf(batch[m]) # HashOf(fn.articles[n])

\* C21: process_articles accepts a record with an unseen hash exactly when
\* its text holds a high_priority keyword, a medium_priority keyword or two
\* tech_context keywords; an accepted record whose text holds a critical
\* term is returned with priority critical.
C21_AcceptedIffKeywordRule ==
    fn.op = "process_articles" =>
        \A n \in DOMAIN fn.articles :
            UnseenAt(n) =>
                /\ AcceptedAt(n) <=> KeywordRule(fn.articles[n])
                /\ AcceptedAt(n) => batch[n] \in Range(result)
                /\ ~AcceptedAt(n) => batch[n] \notin Range(result)
                /\ (AcceptedAt(n)
                        /\ AnyTermIn(critical_terms, combined_text(fn.articles[n])))
                       => batch[n]["priority"] = "critical"

\* a record with two tech_context keywords and nothing else was accepted
\* after a record with one was dropped
C21_Witness ==
    /\ fn.op = "process_articles"
    /\ Len(fn.articles) = 2
    /\ MatchCount(tech_context, fn.articles[1]) = 1
    /\ MatchCount(high_priority \o medium_priority, fn.articles[1]) = 0
    /\ ~AcceptedAt(1)
    /\ MatchCount(tech_context, fn.articles[2]) = 2
    /\ MatchCount(high_priority \o medium_priority, fn.articles[2]) = 0
    /\ AcceptedAt(2)
    /\ result = << batch[2] >>

(***************************************************************************)
(* Claims about a second call with the same batch                          *)
(***************************************************************************)
\* C22: a second call of process_articles with the batch of the first, on
\* the same instance, returns the empty list and leaves seen_hashes as the
\* first call left it; no record of the batch is accepted again.
C22_SecondCallReturnsNothing ==
    (fn.op = "process_articles twice" /\ "returned" \in DOMAIN fn) =>
        /\ result = << >>
        /\ processed = << >>
        /\ seen_hashes = fn.seen
        /\ \A n \in DOMAIN batch :
               DOMAIN batch[n] \ DOMAIN fn.articles[n] \subseteq {"hash"}

\* the first call accepted one record of two and dropped the other for its
\* score; the second call was given the same list
C22_Witness ==
    /\ fn.op = "process_articles twice"
    /\ "returned" \in DOMAIN fn
    /\ fn.articles = fn.before
    /\ Len(fn.articles) = 2
    /\ fn.returned = << fn.articles[1] >>
    /\ "relevance_score" \notin DOMAIN fn.articles[2]
    /\ ScoreOf(fn.articles[2]) < 2
    /\ result = << >>
    /\ seen_hashes = {fn.articles[1]["hash"]}

(***************************************************************************)
(* Claims about what the passes leave of seen_hashes                       *)
(***************************************************************************)
\* C23: seen_hashes changes only in the loop of process_articles, and only
\* by growing: filter_by_date, deduplicate_articles and get_trending_topics
\* leave it alone.  So the hash of every record the instance ever accepted
\* is in it, whatever the later passes dropped, and the instance accepts no
\* second record with that hash.
C23_OnlyProcessArticlesWritesSeenHashes ==
    /\ [](/\ \A n \in DOMAIN accepted : accepted[n]["hash"] \in seen_hashes
          /\ \A m, n \in DOMAIN accepted :
                 (m # n) => accepted[m]["hash"] # accepted[n]["hash"])
    /\ [][/\ seen_hashes \subseteq seen_hashes'
          /\ (seen_hashes' # seen_hashes) => (pc = "process_articles" /\ pc' = pc)
          /\ (lastOp' # lastOp /\ lastOp'.name # "process_articles")
                 => seen_hashes' = seen_hashes]_vars

\* the first run accepted one record and the date filter dropped it; the
\* second call of process_articles has met a record with its hash and has
\* not accepted it
C23_Witness ==
    /\ pc = "process_articles"
    /\ runs = 1
    /\ lastOp.name = "filter_by_date"
    /\ Len(accepted) = 1
    /\ result = << >>
    /\ seen_hashes = {accepted[1]["hash"]}
    /\ Len(batch) = 1
    /\ batch[1]["hash"] = accepted[1]["hash"]
    /\ batch[1]["url"] # accepted[1]["url"]
    /\ "relevance_score" \notin DOMAIN batch[1]
    /\ processed = << >>

(***************************************************************************)
(* Claims about the WebScraper the scrape_source tasks share               *)
(***************************************************************************)
\* C24: every value of self.rate_limit that a request made for a source is
\* throttled with is the rate_limit configured for that source, however the
\* tasks of the pool interleave.
C24_ThrottledWithOwnRateLimit ==
    \A name \in DOMAIN threads :
        \A n \in DOMAIN threads[name].limits :
            threads[name].limits[n] = threads[name].source.rate_limit

(***************************************************************************)
(* Claims about WebScraper._make_request                                   *)
(***************************************************************************)
InMakeRequest == fn.op = "_make_request"

\* the attempts of the call that got a response with status 200
Attempts200 ==
    {n \in DOMAIN fn.outcomes :
        fn.outcomes[n].type = "Response" /\ fn.outcomes[n].status_code = 200}

\* C25: a call of _make_request makes at most max_retries GET attempts and
\* returns.  It makes no attempt after one that got status 200, and returns
\* the response of that attempt; it returns None when max_retries attempts
\* were made and each raised a request error or got another status.
C25_MakeRequestReturns ==
    /\ [](InMakeRequest =>
            /\ Len(fn.outcomes) <= fn.max_retries
            /\ Attempts200 \subseteq {Len(fn.outcomes)}
            /\ Attempts200 # {} =>
                   (fn.pc = "returned" /\ fn.ret = fn.outcomes[Len(fn.outcomes)])
            /\ (fn.pc = "returned" /\ Attempts200 = {}) =>
                   (fn.ret = None /\ Len(fn.outcomes) = fn.max_retries)
            /\ fn.pc # "returned" => fn.ret = None)
    /\ (InMakeRequest ~> (InMakeRequest /\ fn.pc = "returned"))

\* the third attempt got status 200, after a 429 and a request error, and
\* its response was returned
C25_Witness ==
    /\ InMakeRequest
    /\ fn.pc = "returned"
    /\ fn.max_retries = 3
    /\ Len(fn.outcomes) = 3
    /\ fn.outcomes[1].type = "Response" /\ fn.outcomes[1].status_code = 429
    /\ fn.outcomes[2].type = "RequestException"
    /\ fn.ret = Response(200, 2)

====
